---- MODULE Spec2Model ----
(***************************************************************************)
(* Orbital Nexus data fusion engine: the aggregator get_location_context,  *)
(* its domain resolvers (weather, land use, vegetation index, soil,        *)
(* market) and their module-level caches.                                  *)
(*                                                                         *)
(* Coordinates are integers in units of 0.0001 degree; times are seconds.  *)
(* A Python dict payload is a record; the presence of an internal key      *)
(* ("_live", "_source") is a field with the value "absent" when the key    *)
(* is not in the dict.                                                     *)
(***************************************************************************)
EXTENDS Integers, Sequences, FiniteSets, TLC

VARIABLES
    now,             \* time.time(), seconds
    env,             \* os.getenv values read at import: which API keys are set
    scenario,        \* the providers' behaviour explored in this run (see Answers)
    nreq,            \* the number of requests started
    weather_cache,   \* data_fusion._weather_cache: key -> [ts, data]
    ndvi_cache,      \* data_fusion._ndvi_cache:    key -> [ts, data]
    soil_cache,      \* sisindia_soil._cache: insertion-ordered <<[key, value]>>
    market_cache,    \* market_brain._market_cache: key -> [data, timestamp]
    gemini_cache,    \* gemini_service._market_cache: insertion-ordered keys
    pc,              \* per request slot: "idle", "gather", "done", "raised"
    coord,           \* per request slot: the (lat, lon) of the request
    weather_task,    \* per slot: the _fetch_weather task
    bhuvan_task,     \* per slot: the _check_bhuvan_land_use task
    agro_task,       \* per slot: the _fetch_agro_satellite task
    sisindia_task,   \* per slot: the fetch_sisindia_soil task
    ctx,             \* per slot: what get_location_context returned
    probe,           \* the last direct call of a cache primitive, its result, and
                     \* the call before it when that was for the same key
    crop_cache,      \* gemini_service._crop_cache: insertion-ordered <<[key, value]>>
    born,            \* history: per capacity-limited cache, the keys it holds in
                     \* the order of the events that inserted them
    soil_db,         \* data_fusion._SOIL_DB, loaded at import
    stats_cache,     \* ndvi_service._ndvi_cache: key -> [ts, data]
    engine,          \* the CropEngine singleton: its loaded reference rows
    call             \* the last direct call of a function and what it returned

vars == <<now, env, scenario, nreq, weather_cache, ndvi_cache, soil_cache, market_cache,
          gemini_cache, pc, coord, weather_task, bhuvan_task, agro_task,
          sisindia_task, ctx, probe, crop_cache, born, soil_db, stats_cache, engine, call>>

caches == <<weather_cache, ndvi_cache, soil_cache, market_cache, gemini_cache>>

\* the state of the components that are studied on their own
aside == <<crop_cache, born, soil_db, stats_cache, engine, call>>

\* what no request changes
fixed == <<env, scenario, probe, aside>>

(***************************************************************************)
(* Bounds of the model.                                                    *)
(***************************************************************************)
Slots == {1, 2}
MainSlots == {1}

\* the requests one run starts
MaxRequests == 2

\* the instants the clock takes: 600 s is the weather / NDVI TTL
Times == {0, 600}

\* two points of one ~1 km cache cell near Greater Noida (cA inside the
\* reference box, cA2 just south of it) and Sultanpur
cA  == [lat |-> 284740, lon |-> 775030]
cA2 == [lat |-> 284700, lon |-> 775000]
cS  == [lat |-> 262600, lon |-> 820700]
Coords == {cA, cA2}

\* Kanpur, and Colombo (south of the India bounds)
cK  == [lat |-> 264500, lon |-> 803300]
cO  == [lat |-> 69271, lon |-> 798612]

\* two points of one cache cell at the northern edge of the India bounds:
\* cL inside (35.4900 N), cLo outside (35.4945 N, above _LAT_MAX = 35.4940)
cL  == [lat |-> 354900, lon |-> 775000]
cLo == [lat |-> 354945, lon |-> 775000]

\* One run studies one domain: the providers of the domain in focus answer
\* in every way, the providers of the other domains are all up or all down.
\* The market resolver runs after the four tasks have finished; it is
\* studied with their providers up (with all providers down it is part of
\* the other runs).
Domains == {"weather", "land", "ndvi", "soil", "market"}
Scenarios ==
    {s \in [focus : Domains, others : {"up", "down"}] :
        s.focus = "market" => s.others = "up"}

\* the answers a provider of domain gives in this run
Answers(domain, all, up, down) ==
    IF scenario.focus = domain THEN all
    ELSE IF scenario.others = "up" THEN {up} ELSE {down}

(***************************************************************************)
(* Program constants.                                                      *)
(***************************************************************************)
WEATHER_CACHE_TTL == 600
NDVI_CACHE_TTL == 600

\* round(x, 2) of a coordinate in 0.0001 degree (the inputs hold no ties)
Round2(x) ==
    IF x >= 0 THEN ((x + 50) \div 100) * 100
              ELSE -((((-x) + 50) \div 100) * 100)

\* cache_key = (round(lat, 2), round(lon, 2))
CacheKey(c) == <<Round2(c.lat), Round2(c.lon)>>

(***************************************************************************)
(* Dicts.                                                                  *)
(***************************************************************************)
EmptyMap == [x \in {} |-> 0]

\* d[k] = v
Put(d, k, v) == [x \in (DOMAIN d) \cup {k} |-> IF x = k THEN v ELSE d[x]]

\* the result of a task that has not produced one
NoData == [tier |-> "none"]

\* no direct call yet
NoProbe == [op |-> "none", cache |-> "none", key |-> <<>>, value |-> NoData,
            since |-> 0, prev |-> "none"]

\* no direct call of a function yet
NoCall == [fn |-> "none"]

\* no insertion yet
NoHistory == [soil |-> <<>>, crop |-> <<>>]

\* CropEngine whose _load failed: _feature_matrix is None
NotLoaded == [loaded |-> FALSE, rows |-> <<>>]

\* an idle task
IdleTask == [st |-> "idle", res |-> NoData, log |-> <<>>]

\* one provider exchange in a resolution's log
Call(tier, outcome) == [tier |-> tier, ok |-> outcome]

(***************************************************************************)
(* Weather: _fetch_weather, _fetch_weatherapi, _estimate_weather           *)
(***************************************************************************)
\* what Open-Meteo can answer: 200 with the current block, 200 without it,
\* 200 with {"error": true}, and the failures of the request itself
OpenMeteoOutcomes ==
    {"ok", "no_current", "error_flag", "timeout", "non2xx", "malformed"}
WeatherApiOutcomes == {"ok", "no_current", "timeout", "non2xx", "malformed"}

\* the dict built at lines 206-212 (Open-Meteo) and 256-262 (WeatherAPI);
\* body says whether the fields came from the response or from the .get defaults
LiveWeather(tier, out, c) ==
    [tier |-> tier, body |-> IF out = "ok" THEN "full" ELSE "defaults",
     live |-> "True", at |-> c]

\* _estimate_weather(lat, lon)
EstimateWeather(c) ==
    [tier |-> "Estimate", body |-> "full", live |-> "False", at |-> c]

\* a faulty variant of WeatherCacheHit: the age comparison reversed
WeatherCacheHitReversed(cache, k, t) ==
    /\ k \in DOMAIN cache
    /\ t - cache[k].ts > WEATHER_CACHE_TTL

\* lines 183-185: the key is cached and younger than the TTL
WeatherCacheHit(cache, k, t) ==
    /\ k \in DOMAIN cache
    /\ t - cache[k].ts < WEATHER_CACHE_TTL

\* line 215 / 225: _weather_cache[cache_key] = (_time.time(), {**result})
WeatherCachePut(cache, k, t, result) == Put(cache, k, [ts |-> t, data |-> result])

\* line 187: return {**cached_data}
WeatherCacheGet(cache, k) == cache[k].data

\* the first segment of the task: the cache check, then the Open-Meteo request
WeatherBegin(c) ==
    IF WeatherCacheHit(weather_cache, CacheKey(c), now)
    THEN [st |-> "done", res |-> WeatherCacheGet(weather_cache, CacheKey(c)),
          log |-> <<>>]
    ELSE [st |-> "pendA", res |-> NoData, log |-> <<>>]

\* a faulty variant of AfterOpenMeteoFailure: WeatherAPI.com is never tried
AfterOpenMeteoFailureSkipsTier(t, c) ==
    [st |-> "done", res |-> EstimateWeather(c),
     log |-> t.log \o <<Call("OpenMeteo", FALSE), Call("Estimate", TRUE)>>]

\* what follows a failed Open-Meteo request (lines 218-230)
AfterOpenMeteoFailure(t, c) ==
    IF env.WEATHER_API_KEY
    THEN [st |-> "pendB", res |-> NoData,
          log |-> Append(t.log, Call("OpenMeteo", FALSE))]
    ELSE [st |-> "done", res |-> EstimateWeather(c),
          log |-> t.log \o <<Call("OpenMeteo", FALSE), Call("Estimate", TRUE)>>]

OpenMeteoResponse(r, out) ==
    /\ pc[r] = "gather"
    /\ weather_task[r].st = "pendA"
    /\ IF out \in {"ok", "no_current"}
       THEN LET result == LiveWeather("OpenMeteo", out, coord[r]) IN
            /\ weather_cache' =
                 WeatherCachePut(weather_cache, CacheKey(coord[r]), now, result)
            /\ weather_task' = [weather_task EXCEPT ![r] =
                 [st |-> "done", res |-> result,
                  log |-> Append(@.log, Call("OpenMeteo", TRUE))]]
       ELSE /\ weather_task' = [weather_task EXCEPT ![r] =
                 AfterOpenMeteoFailure(@, coord[r])]
            /\ UNCHANGED weather_cache
    /\ UNCHANGED <<now, nreq, fixed, ndvi_cache, soil_cache, market_cache, gemini_cache,
                   pc, coord, bhuvan_task, agro_task, sisindia_task, ctx>>

WeatherApiResponse(r, out) ==
    /\ pc[r] = "gather"
    /\ weather_task[r].st = "pendB"
    /\ IF out \in {"ok", "no_current"}
       THEN LET result == LiveWeather("WeatherAPI", out, coord[r]) IN
            /\ weather_cache' =
                 WeatherCachePut(weather_cache, CacheKey(coord[r]), now, result)
            /\ weather_task' = [weather_task EXCEPT ![r] =
                 [st |-> "done", res |-> result,
                  log |-> Append(@.log, Call("WeatherAPI", TRUE))]]
       ELSE /\ weather_task' = [weather_task EXCEPT ![r] =
                 [st |-> "done", res |-> EstimateWeather(coord[r]),
                  log |-> @.log \o <<Call("WeatherAPI", FALSE),
                                     Call("Estimate", TRUE)>>]]
            /\ UNCHANGED weather_cache
    /\ UNCHANGED <<now, nreq, fixed, ndvi_cache, soil_cache, market_cache, gemini_cache,
                   pc, coord, bhuvan_task, agro_task, sisindia_task, ctx>>

(***************************************************************************)
(* Land use: _check_bhuvan_land_use                                        *)
(***************************************************************************)
\* 200 with a mapped code, 200 with an unmapped code, 200 without "Code",
\* and the failures caught at line 660
BhuvanOutcomes ==
    {"code_known", "code_unknown", "no_code", "timeout", "non2xx", "malformed"}

\* a faulty variant of LandClass: a failed request labelled as classified
LandClassAlwaysVerified(out) == [label |-> "Verified Farmland", suffix |-> "(ISRO Bhuvan)"]

\* the returned string, as its label and its parenthesised suffix
LandClass(out) ==
    CASE out = "code_known"   -> [label |-> "Verified Farmland", suffix |-> "(ISRO Bhuvan)"]
      [] out = "code_unknown" -> [label |-> "Mixed Land - Code 9", suffix |-> "(ISRO Bhuvan)"]
      [] out = "no_code"      -> [label |-> "Mixed Land - Code ", suffix |-> "(ISRO Bhuvan)"]
      [] OTHER                -> [label |-> "Default Agriculture", suffix |-> "(Bhuvan Offline)"]

BhuvanResponse(r, out) ==
    /\ pc[r] = "gather"
    /\ bhuvan_task[r].st = "pend"
    /\ bhuvan_task' = [bhuvan_task EXCEPT ![r] =
         [st |-> "done", res |-> LandClass(out),
          log |-> <<Call("Bhuvan", out \in {"code_known", "code_unknown", "no_code"})>>]]
    /\ UNCHANGED <<now, nreq, fixed, caches, pc, coord, weather_task, agro_task,
                   sisindia_task, ctx>>

(***************************************************************************)
(* Vegetation index: _fetch_agro_satellite and its tiers                   *)
(***************************************************************************)
NDVI_MODIS == "NASA MODIS (Live)"
NDVI_AGRO == "Agromonitoring Satellite"
NDVI_EST == "Estimated (Regional + Seasonal)"

\* MODIS: 200 with valid NDVI values; the answers _fetch_modis_ndvi turns
\* into None (lines 417-443); the exceptions caught at lines 465-470
ModisOutcomes ==
    {"ok", "non200", "no_band", "no_data", "all_fill", "timeout", "malformed"}

\* GET /polygons (lines 506-515)
AgroPolygonsOutcomes == {"has_polygon", "no_polygon", "401", "timeout"}
\* POST /polygons (lines 518-522)
AgroCreateOutcomes == {"created", "rejected", "timeout"}
\* GET /ndvi/history (lines 525-545): a list whose last entry holds data, a
\* list whose last entry holds no mean/min/max, an empty list, and failures
AgroHistoryOutcomes == {"ok", "no_mean", "empty", "non200", "timeout"}

\* the dict of lines 456-463
ModisNdvi(c) == [source |-> NDVI_MODIS, body |-> "full", live |-> "True", at |-> c]

\* the dict of lines 539-545; the .get defaults stand in for missing fields
AgroNdvi(out, c) ==
    [source |-> NDVI_AGRO, body |-> IF out = "ok" THEN "full" ELSE "defaults",
     live |-> "True", at |-> c]

\* _estimate_ndvi(lat, lon)
EstimateNdvi(c) == [source |-> NDVI_EST, body |-> "full", live |-> "False", at |-> c]

\* lines 363-365
NdviCacheHit(cache, k, t) ==
    /\ k \in DOMAIN cache
    /\ t - cache[k].ts < NDVI_CACHE_TTL

\* lines 372, 379, 384: _ndvi_cache[cache_key] = (_time.time(), result); the
\* dict stored is the dict returned, not a copy
NdviCachePut(cache, k, t, result) == Put(cache, k, [ts |-> t, data |-> result])

\* the dict a task holds: the one stored under key in the cache
Cached(k) == [kind |-> "cached", key |-> k]

\* line 367: return cached (the cached dict itself)
NdviBegin(c) ==
    IF NdviCacheHit(ndvi_cache, CacheKey(c), now)
    THEN [st |-> "done", res |-> Cached(CacheKey(c)), log |-> <<>>]
    ELSE [st |-> "pendModis", res |-> NoData, log |-> <<>>]

\* a tier produced result: store it, return it (lines 372-373, 379-380, 384-385)
NdviFinish(r, result, log) ==
    /\ ndvi_cache' = NdviCachePut(ndvi_cache, CacheKey(coord[r]), now, result)
    /\ agro_task' = [agro_task EXCEPT ![r] =
         [st |-> "done", res |-> Cached(CacheKey(coord[r])), log |-> log]]

\* tier 2 returned None, or was skipped: tier 3 (lines 382-385)
NdviEstimate(r, log) ==
    NdviFinish(r, EstimateNdvi(coord[r]), Append(log, Call("Estimate", TRUE)))

ModisResponse(r, out) ==
    /\ pc[r] = "gather"
    /\ agro_task[r].st = "pendModis"
    /\ IF out = "ok"
       THEN NdviFinish(r, ModisNdvi(coord[r]), <<Call("MODIS", TRUE)>>)
       ELSE IF env.AGRO_SATELLITE_KEY
            THEN /\ agro_task' = [agro_task EXCEPT ![r] =
                      [st |-> "pendAgroList", res |-> NoData,
                       log |-> <<Call("MODIS", FALSE)>>]]
                 /\ UNCHANGED ndvi_cache
            ELSE NdviEstimate(r, <<Call("MODIS", FALSE)>>)
    /\ UNCHANGED <<now, nreq, fixed, weather_cache, soil_cache, market_cache,
                   gemini_cache, pc, coord, weather_task, bhuvan_task,
                   sisindia_task, ctx>>

AgroPolygonsResponse(r, out) ==
    /\ pc[r] = "gather"
    /\ agro_task[r].st = "pendAgroList"
    /\ CASE out = "has_polygon" ->
              /\ agro_task' = [agro_task EXCEPT ![r].st = "pendAgroHistory"]
              /\ UNCHANGED ndvi_cache
         [] out = "no_polygon" ->
              /\ agro_task' = [agro_task EXCEPT ![r].st = "pendAgroCreate"]
              /\ UNCHANGED ndvi_cache
         [] OTHER ->
              NdviEstimate(r, Append(agro_task[r].log, Call("AgroMonitoring", FALSE)))
    /\ UNCHANGED <<now, nreq, fixed, weather_cache, soil_cache, market_cache,
                   gemini_cache, pc, coord, weather_task, bhuvan_task,
                   sisindia_task, ctx>>

AgroCreateResponse(r, out) ==
    /\ pc[r] = "gather"
    /\ agro_task[r].st = "pendAgroCreate"
    /\ IF out = "created"
       THEN /\ agro_task' = [agro_task EXCEPT ![r].st = "pendAgroHistory"]
            /\ UNCHANGED ndvi_cache
       ELSE NdviEstimate(r, Append(agro_task[r].log, Call("AgroMonitoring", FALSE)))
    /\ UNCHANGED <<now, nreq, fixed, weather_cache, soil_cache, market_cache,
                   gemini_cache, pc, coord, weather_task, bhuvan_task,
                   sisindia_task, ctx>>

AgroHistoryResponse(r, out) ==
    /\ pc[r] = "gather"
    /\ agro_task[r].st = "pendAgroHistory"
    /\ IF out \in {"ok", "no_mean"}
       THEN NdviFinish(r, AgroNdvi(out, coord[r]),
                       Append(agro_task[r].log, Call("AgroMonitoring", TRUE)))
       ELSE NdviEstimate(r, Append(agro_task[r].log, Call("AgroMonitoring", FALSE)))
    /\ UNCHANGED <<now, nreq, fixed, weather_cache, soil_cache, market_cache,
                   gemini_cache, pc, coord, weather_task, bhuvan_task,
                   sisindia_task, ctx>>

(***************************************************************************)
(* Soil, live: sisindia_soil.fetch_sisindia_soil                           *)
(***************************************************************************)
LAT_MIN == 79655
LAT_MAX == 354940
LON_MIN == 681766
LON_MAX == 974026

\* scaled down from the source's 500 so that a full cache is reachable
MAX_CACHE_SIZE == 2

\* a query's answer: the status, and for a 200 whether soil_properties holds
\* pH and N as numbers ("num"), as JSON null ("null") or not at all ("absent")
SoilFailures ==
    {[status |-> s, pH |-> "absent", N |-> "absent"] :
        s \in {"204", "timeout", "non2xx", "malformed"}}
SoilBodies ==
    {[status |-> "200", pH |-> p, N |-> n] :
        p \in {"num", "null", "absent"}, n \in {"num", "null", "absent"}}
SoilOutcomes == SoilFailures \cup SoilBodies

\* _query_district / _query_gridded with _extract_soil_properties: the
\* soil_props dict, or None ("none") for a failure or for a body in which
\* .get("pH") and .get("N") are both None
ExtractSoilProperties(out) ==
    IF out.status # "200" THEN "none"
    ELSE IF out.pH \in {"null", "absent"} /\ out.N \in {"null", "absent"} THEN "none"
    ELSE "props"

\* _convert_to_soil_format: raw.get(name, default) yields None for a JSON null,
\* and the comparisons of _infer_soil_type / _recommend_crops_from_nutrients
\* raise TypeError on None
ConvertRaises(out) == out.pH = "null" \/ out.N = "null"

\* the dict of lines 222-237
ConvertToSoilFormat(out) ==
    [tier |-> "SISIndia",
     ph |-> IF out.pH = "num" THEN "num" ELSE "default",
     n  |-> IF out.N = "num" THEN "num" ELSE "default",
     src |-> "SISIndia (Live)"]

\* the positions of key in the insertion-ordered dict
SoilIndex(cache, key) == {i \in 1..Len(cache) : cache[i].key = key}
SoilKeys(cache) == {cache[i].key : i \in 1..Len(cache)}

\* _get_cached(key): _cache.get(key)
SoilGetCached(cache, key) ==
    IF SoilIndex(cache, key) = {} THEN NoData
    ELSE cache[CHOOSE i \in SoilIndex(cache, key) : TRUE].value

\* _cache[key] = value: an existing key keeps its place in the order
SoilAssign(cache, key, value) ==
    IF SoilIndex(cache, key) = {}
    THEN Append(cache, [key |-> key, value |-> value])
    ELSE [i \in 1..Len(cache) |->
            IF cache[i].key = key THEN [key |-> key, value |-> value] ELSE cache[i]]

\* a faulty variant of SoilSetCached: the newest key is evicted
SoilSetCachedEvictsNewest(cache, key, value) ==
    IF Len(cache) >= MAX_CACHE_SIZE
    THEN SoilAssign(SubSeq(cache, 1, Len(cache) - 1), key, value)
    ELSE SoilAssign(cache, key, value)

\* _set_cached(key, value), lines 360-366
SoilSetCached(cache, key, value) ==
    IF Len(cache) >= MAX_CACHE_SIZE
    THEN SoilAssign(Tail(cache), key, value)
    ELSE SoilAssign(cache, key, value)

\* lines 70-79: the bounds check, then the cache check, then the district query
InIndia(c) ==
    /\ LAT_MIN <= c.lat /\ c.lat <= LAT_MAX
    /\ LON_MIN <= c.lon /\ c.lon <= LON_MAX

\* a faulty variant of SoilBegin: the cache is read before the bounds check
SoilBeginCacheFirst(c) == IF SoilGetCached(soil_cache, CacheKey(c)) # NoData THEN [st |-> "done", res |-> Cached(CacheKey(c)), log |-> <<>>] ELSE IF ~InIndia(c) THEN [st |-> "done", res |-> NoData, log |-> <<>>] ELSE [st |-> "pendDistrict", res |-> NoData, log |-> <<>>]

SoilBegin(c) ==
    IF ~InIndia(c)
    THEN [st |-> "done", res |-> NoData, log |-> <<>>]
    ELSE IF SoilGetCached(soil_cache, CacheKey(c)) # NoData
         THEN [st |-> "done", res |-> Cached(CacheKey(c)), log |-> <<>>]
         ELSE [st |-> "pendDistrict", res |-> NoData, log |-> <<>>]

\* lines 90-93 after a query returned soil properties
SoilConvertAndCache(r, out, log) ==
    IF ConvertRaises(out)
    THEN /\ sisindia_task' = [sisindia_task EXCEPT ![r] =
              [st |-> "raised", res |-> NoData, log |-> log]]
         /\ UNCHANGED soil_cache
    ELSE /\ soil_cache' =
              SoilSetCached(soil_cache, CacheKey(coord[r]), ConvertToSoilFormat(out))
         /\ sisindia_task' = [sisindia_task EXCEPT ![r] =
              [st |-> "done", res |-> Cached(CacheKey(coord[r])), log |-> log]]

DistrictResponse(r, out) ==
    /\ pc[r] = "gather"
    /\ sisindia_task[r].st = "pendDistrict"
    /\ IF ExtractSoilProperties(out) = "none"
       THEN /\ sisindia_task' = [sisindia_task EXCEPT ![r] =
                 [st |-> "pendGridded", res |-> NoData,
                  log |-> <<Call("District", FALSE)>>]]
            /\ UNCHANGED soil_cache
       ELSE SoilConvertAndCache(r, out, <<Call("District", TRUE)>>)
    /\ UNCHANGED <<now, nreq, fixed, weather_cache, ndvi_cache, market_cache,
                   gemini_cache, pc, coord, weather_task, bhuvan_task,
                   agro_task, ctx>>

GriddedResponse(r, out) ==
    /\ pc[r] = "gather"
    /\ sisindia_task[r].st = "pendGridded"
    /\ IF ExtractSoilProperties(out) = "none"
       THEN /\ sisindia_task' = [sisindia_task EXCEPT ![r] =
                 [st |-> "done", res |-> NoData,
                  log |-> Append(@.log, Call("Gridded", FALSE))]]
            /\ UNCHANGED soil_cache
       ELSE SoilConvertAndCache(r, out, Append(sisindia_task[r].log, Call("Gridded", TRUE)))
    /\ UNCHANGED <<now, nreq, fixed, weather_cache, ndvi_cache, market_cache,
                   gemini_cache, pc, coord, weather_task, bhuvan_task,
                   agro_task, ctx>>

(***************************************************************************)
(* Region matcher: _SOIL_DB, _haversine, _lookup_soil, _get_region_name    *)
(***************************************************************************)
\* the reference table (data/soil_database.json is read at import); ranges
\* are [min, max] in 0.0001 degree
SOIL_DB ==
    [regions |-> <<
        [city |-> "Greater Noida", state |-> "Uttar Pradesh",
         lat_range |-> <<284720, 286000>>, lon_range |-> <<774000, 776000>>,
         soil_type |-> "Alluvial"] >>,
     default |-> [soil_type |-> "Alluvial"]]

\* further regions a table can declare: a box that overlaps the first one, a
\* box around Lucknow, and a small box with the centre of the first one
RegionNoida ==
    [city |-> "Noida", state |-> "Uttar Pradesh",
     lat_range |-> <<284500, 285500>>, lon_range |-> <<773000, 775500>>,
     soil_type |-> "Sandy Loam"]
RegionLucknow ==
    [city |-> "Lucknow", state |-> "Uttar Pradesh",
     lat_range |-> <<267500, 269500>>, lon_range |-> <<808500, 810500>>,
     soil_type |-> "Clay Loam"]
RegionSurajpur ==
    [city |-> "Surajpur", state |-> "Uttar Pradesh",
     lat_range |-> <<285260, 285460>>, lon_range |-> <<774900, 775100>>,
     soil_type |-> "Loam"]

\* the tables studied: the table of lines 55-68 used when the file is
\* missing (no region), and tables in which boxes overlap in either order of
\* declaration and two centres coincide
SoilTables ==
    LET r1 == SOIL_DB.regions[1] IN
    {[regions |-> t, default |-> SOIL_DB.default] :
        t \in {<<>>, <<r1>>, <<r1, RegionNoida>>, <<RegionNoida, r1>>,
               <<r1, RegionLucknow>>, <<RegionLucknow, RegionNoida, r1>>,
               <<RegionSurajpur, r1>>, <<r1, RegionSurajpur, RegionLucknow>>}}

\* "within 150 km" (lines 698, 782), in metres
NEAREST_LIMIT_M == 150000

\* _haversine from (lat, lon) to the centre of a box, in whole metres (the
\* source's value in km, times 1000, rounded down), for the coordinates and
\* boxes of this model; the centre is given doubled
\* (lat_range[0] + lat_range[1], lon_range[0] + lon_range[1])
haversine(lat, lon, clat2, clon2) ==
    \* to the centre of Greater Noida / Surajpur
    CASE <<lat, lon, clat2, clon2>> = <<284740, 775030, 570720, 1550000>> -> 6900
      [] <<lat, lon, clat2, clon2>> = <<284700, 775000, 570720, 1550000>> -> 7338
      [] <<lat, lon, clat2, clon2>> = <<286000, 776000, 570720, 1550000>> -> 12083
      [] <<lat, lon, clat2, clon2>> = <<262600, 820700, 570720, 1550000>> -> 517227
      [] <<lat, lon, clat2, clon2>> = <<264500, 803300, 570720, 1550000>> -> 362910
      [] <<lat, lon, clat2, clon2>> = <<69271, 798612, 570720, 1550000>> -> 2415577
      [] <<lat, lon, clat2, clon2>> = <<260000, 821197, 570720, 1550000>> -> 536581
      [] <<lat, lon, clat2, clon2>> = <<260000, 821198, 570720, 1550000>> -> 536589
      [] <<lat, lon, clat2, clon2>> = <<232599, 774126, 570720, 1550000>> -> 586740
      [] <<lat, lon, clat2, clon2>> = <<284000, 775000, 570720, 1550000>> -> 15122
    \* to the centre of Noida
      [] <<lat, lon, clat2, clon2>> = <<284740, 775030, 570000, 1548500>> -> 8152
      [] <<lat, lon, clat2, clon2>> = <<284700, 775000, 570000, 1548500>> -> 8053
      [] <<lat, lon, clat2, clon2>> = <<286000, 776000, 570000, 1548500>> -> 20391
      [] <<lat, lon, clat2, clon2>> = <<262600, 820700, 570000, 1548500>> -> 521840
      [] <<lat, lon, clat2, clon2>> = <<264500, 803300, 570000, 1548500>> -> 366161
      [] <<lat, lon, clat2, clon2>> = <<69271, 798612, 570000, 1548500>> -> 2412422
      [] <<lat, lon, clat2, clon2>> = <<260000, 821197, 570000, 1548500>> -> 540897
      [] <<lat, lon, clat2, clon2>> = <<260000, 821198, 570000, 1548500>> -> 540906
      [] <<lat, lon, clat2, clon2>> = <<232599, 774126, 570000, 1548500>> -> 582673
      [] <<lat, lon, clat2, clon2>> = <<284000, 775000, 570000, 1548500>> -> 13319
    \* to the centre of Lucknow
      [] <<lat, lon, clat2, clon2>> = <<284740, 775030, 537000, 1619000>> -> 384492
      [] <<lat, lon, clat2, clon2>> = <<284700, 775000, 537000, 1619000>> -> 384549
      [] <<lat, lon, clat2, clon2>> = <<286000, 776000, 537000, 1619000>> -> 382843
      [] <<lat, lon, clat2, clon2>> = <<262600, 820700, 537000, 1619000>> -> 129281
      [] <<lat, lon, clat2, clon2>> = <<264500, 803300, 537000, 1619000>> -> 75992
      [] <<lat, lon, clat2, clon2>> = <<69271, 798612, 537000, 1619000>> -> 2218313
      [] <<lat, lon, clat2, clon2>> = <<260000, 821197, 537000, 1619000>> -> 149997
      [] <<lat, lon, clat2, clon2>> = <<260000, 821198, 537000, 1619000>> -> 150004
      [] <<lat, lon, clat2, clon2>> = <<232599, 774126, 537000, 1619000>> -> 535028
      [] <<lat, lon, clat2, clon2>> = <<284000, 775000, 537000, 1619000>> -> 381064

\* a faulty variant of InBox: the bounds are excluded
InBoxExclusive(region, c) ==
    /\ region.lat_range[1] < c.lat /\ c.lat < region.lat_range[2]
    /\ region.lon_range[1] < c.lon /\ c.lon < region.lon_range[2]

\* lines 680-682 / 737-739: the box contains the point, bounds included
InBox(region, c) ==
    /\ region.lat_range[1] <= c.lat /\ c.lat <= region.lat_range[2]
    /\ region.lon_range[1] <= c.lon /\ c.lon <= region.lon_range[2]

\* the first region whose box contains c; 0 when none does
BoxMatch(c) ==
    LET hits == {i \in 1..Len(soil_db.regions) : InBox(soil_db.regions[i], c)} IN
    IF hits = {} THEN 0 ELSE CHOOSE i \in hits : \A j \in hits : i <= j

\* lines 686-695 / 771-780: the loop keeping the first strict minimum;
\* best = 0 is None (best_dist is then infinite)
RECURSIVE NearestLoop(_, _, _, _)
NearestLoop(c, i, best, best_dist) ==
    IF i > Len(soil_db.regions) THEN [best |-> best, dist |-> best_dist]
    ELSE LET reg == soil_db.regions[i]
             d == haversine(c.lat, c.lon, reg.lat_range[1] + reg.lat_range[2],
                            reg.lon_range[1] + reg.lon_range[2])
         IN IF best = 0 \/ d < best_dist
            THEN NearestLoop(c, i + 1, i, d)
            ELSE NearestLoop(c, i + 1, best, best_dist)

\* a faulty variant of Nearest: the first declared region is taken for the
\* nearest one
NearestIsFirstDeclared(c) ==
    IF soil_db.regions = <<>> THEN [best |-> 0, dist |-> 0]
    ELSE LET reg == soil_db.regions[1] IN
         [best |-> 1,
          dist |-> haversine(c.lat, c.lon, reg.lat_range[1] + reg.lat_range[2],
                             reg.lon_range[1] + reg.lon_range[2])]

\* a faulty variant of Nearest: of regions at the same minimum distance the
\* one declared last is kept (the comparison of the loop taken as <=)
NearestLastOfEqualMinima(c) ==
    LET n == Len(soil_db.regions)
        d(i) == haversine(c.lat, c.lon,
                          soil_db.regions[i].lat_range[1] + soil_db.regions[i].lat_range[2],
                          soil_db.regions[i].lon_range[1] + soil_db.regions[i].lon_range[2])
        minima == {i \in 1..n : \A j \in 1..n : d(i) <= d(j)}
        last == CHOOSE i \in minima : \A j \in minima : j <= i
    IN IF n = 0 THEN [best |-> 0, dist |-> 0] ELSE [best |-> last, dist |-> d(last)]

Nearest(c) == NearestLoop(c, 1, 0, 0)

\* _format_soil(region): a new dict, without a "_source" key
FormatSoil(name, soil_type, note) ==
    [tier |-> "Offline", region |-> name, soil_type |-> soil_type,
     note |-> note, src |-> "absent"]

\* _lookup_soil(lat, lon)
lookup_soil(c) ==
    IF BoxMatch(c) # 0
    THEN FormatSoil(soil_db.regions[BoxMatch(c)].city,
                    soil_db.regions[BoxMatch(c)].soil_type, "none")
    ELSE IF Nearest(c).best # 0 /\ Nearest(c).dist < NEAREST_LIMIT_M
         THEN FormatSoil(soil_db.regions[Nearest(c).best].city,
                         soil_db.regions[Nearest(c).best].soil_type, "Nearest match")
         ELSE FormatSoil("default", soil_db.default.soil_type, "none")

\* what Nominatim answers for a coordinate
GeoNames(c) ==
    IF c = cS THEN [city |-> "Sultanpur", state |-> "Uttar Pradesh", country |-> "India"]
              ELSE [city |-> "Dadri", state |-> "Uttar Pradesh", country |-> "India"]

\* 200 with city and state, with city and country only, with the state only,
\* with no usable address; a non-200 status; an exception
GeoOutcomes ==
    {"city_state", "city_country", "state_only", "no_address", "non200", "timeout"}

\* further answers, studied with _get_region_name called directly: a 200
\* whose body is no JSON object or whose "address" is null (an exception
\* inside the try), and a 200 whose address names a city but neither a state
\* nor a country
GeoOutcomesMore == {"malformed", "city_only"}

\* a faulty variant of get_region_name: the nearest entry is tried before the
\* reverse-geocoding answer is used
get_region_name_nearest_first(c, geo) ==
    IF BoxMatch(c) # 0
    THEN << <<soil_db.regions[BoxMatch(c)].city>>,
            <<soil_db.regions[BoxMatch(c)].state>> >>
    ELSE IF Nearest(c).best # 0 /\ Nearest(c).dist < NEAREST_LIMIT_M
    THEN << <<"Near ", soil_db.regions[Nearest(c).best].city>>,
            <<soil_db.regions[Nearest(c).best].state>> >>
    ELSE CASE geo = "city_state" -> << <<GeoNames(c).city>>, <<GeoNames(c).state>> >>
           [] geo = "city_country" -> << <<GeoNames(c).city>>, <<GeoNames(c).country>> >>
           [] geo = "state_only" -> << <<GeoNames(c).state>> >>
           [] OTHER -> << <<"Region (", ToString(Round2(c.lat)), "N">>,
                          <<ToString(Round2(c.lon)), "E)">> >>

\* A region label is the sequence of its comma-separated parts, each part a
\* sequence of tokens, so that split(",") and replace("Near ", "") are computed
\* _get_region_name(lat, lon) with the Nominatim answer geo
get_region_name(c, geo) ==
    IF BoxMatch(c) # 0
    THEN << <<soil_db.regions[BoxMatch(c)].city>>,
            <<soil_db.regions[BoxMatch(c)].state>> >>
    ELSE CASE geo = "city_state" -> << <<GeoNames(c).city>>, <<GeoNames(c).state>> >>
           [] geo = "city_country" -> << <<GeoNames(c).city>>, <<GeoNames(c).country>> >>
           [] geo = "state_only" -> << <<GeoNames(c).state>> >>
           [] OTHER ->
                IF Nearest(c).best # 0 /\ Nearest(c).dist < NEAREST_LIMIT_M
                THEN << <<"Near ", soil_db.regions[Nearest(c).best].city>>,
                        <<soil_db.regions[Nearest(c).best].state>> >>
                ELSE << <<"Region (", ToString(Round2(c.lat)), "N">>,
                        <<ToString(Round2(c.lon)), "E)">> >>

\* the reverse-geocoding requests one call of _get_region_name makes
GeoCalls(c) == IF BoxMatch(c) # 0 THEN <<>> ELSE <<"nominatim">>

(***************************************************************************)
(* Market: market_brain.get_market_brain and its helpers                   *)
(***************************************************************************)
CACHE_TTL_HOURS == 6
SNAPSHOT_CAP == 20
GEMINI_MARKET_CACHE_MAX == 100

\* _STATE_BOXES (lat_min, lat_max, lon_min, lon_max), in 0.1 degree
STATE_BOXES == <<
    <<"Andhra Pradesh", 125, 191, 767, 848>>, <<"Assam", 240, 280, 895, 960>>,
    <<"Bihar", 240, 275, 833, 882>>, <<"Chhattisgarh", 178, 241, 802, 844>>,
    <<"Delhi", 284, 289, 768, 774>>, <<"Goa", 149, 158, 736, 743>>,
    <<"Gujarat", 200, 247, 681, 745>>, <<"Haryana", 276, 309, 745, 776>>,
    <<"Himachal Pradesh", 304, 333, 755, 790>>, <<"Jharkhand", 219, 253, 833, 879>>,
    <<"Karnataka", 116, 185, 740, 786>>, <<"Kerala", 82, 128, 748, 774>>,
    <<"Madhya Pradesh", 211, 269, 740, 828>>, <<"Maharashtra", 156, 220, 726, 809>>,
    <<"Odisha", 178, 226, 813, 875>>, <<"Punjab", 295, 325, 738, 769>>,
    <<"Rajasthan", 230, 302, 695, 783>>, <<"Tamil Nadu", 80, 136, 762, 804>>,
    <<"Telangana", 158, 199, 772, 813>>, <<"Uttar Pradesh", 235, 304, 771, 847>>,
    <<"Uttarakhand", 287, 315, 775, 811>>, <<"West Bengal", 215, 272, 860, 899>> >>

StateNames == {STATE_BOXES[i][1] : i \in 1..Len(STATE_BOXES)}

\* lines 64-68: inside the box, and the squared distance to its centre; the
\* distance is taken at 0.01 degree (four times the source's value)
InStateBox(b, c) ==
    /\ b[2] * 1000 <= c.lat /\ c.lat <= b[3] * 1000
    /\ b[4] * 1000 <= c.lon /\ c.lon <= b[5] * 1000
StateDist(b, c) ==
    LET dlat == 2 * (c.lat \div 100) - 10 * (b[2] + b[3])
        dlon == 2 * (c.lon \div 100) - 10 * (b[4] + b[5])
    IN dlat * dlat + dlon * dlon

\* _get_state_for_coords(lat, lon): "" for None
RECURSIVE StateLoop(_, _, _, _)
StateLoop(c, i, best, best_dist) ==
    IF i > Len(STATE_BOXES) THEN best
    ELSE IF InStateBox(STATE_BOXES[i], c)
            /\ (best = "" \/ StateDist(STATE_BOXES[i], c) < best_dist)
         THEN StateLoop(c, i + 1, STATE_BOXES[i][1], StateDist(STATE_BOXES[i], c))
         ELSE StateLoop(c, i + 1, best, best_dist)
get_state_for_coords(c) == StateLoop(c, 1, "", 0)

\* part.replace("Near ", "")
RemoveNear(part) == SelectSeq(part, LAMBDA t : t # "Near ")

\* _extract_state_district(region): <<>> is None
extract_state_district(region) ==
    IF Len(region) >= 2
    THEN [state |-> region[Len(region)], district |-> RemoveNear(region[1])]
    ELSE [state |-> region[1], district |-> <<>>]

\* line 123: the state string occurs in a name of _STATE_BOXES
StateKnown(state) == Len(state) = 1 /\ state[1] \in StateNames

\* lines 120-126: the state the query is made for
MandiState(region, c) ==
    LET sd == extract_state_district(region) IN
    IF ~StateKnown(sd.state) /\ get_state_for_coords(c) # ""
    THEN <<get_state_for_coords(c)>>
    ELSE sd.state

\* what data.gov.in answers to one query: a failure caught in
\* _query_agmarknet; no records; records; records none of which has a
\* positive modal price; a "records" list whose entries are not objects
AgmOutcomes == {"fail", "empty", "records", "nonpositive", "nondict"}

\* further answers: a record whose modal price lies between 0 and 1; more
\* distinct commodities than the snapshot keeps, one of them twice
AgmOutcomesMore == {"fraction", "many"}

ManyCommodities ==
    <<"Wheat", "Rice", "Onion", "Potato", "Tomato", "Maize", "Bajra", "Jowar",
      "Barley", "Gram", "Arhar", "Moong", "Urad", "Masur", "Mustard", "Groundnut",
      "Soybean", "Cotton", "Sugarcane", "Garlic", "Ginger", "Chilli">>

\* the "records" list of an answer; modal_price is the value of
\* _safe_float(rec.get("modal_price"), 0), in hundredths
AgmRecords(out) ==
    CASE out = "records" ->
           << [dict |-> TRUE, commodity |-> "Wheat", modal_price |-> 210000],
              [dict |-> TRUE, commodity |-> "Wheat", modal_price |-> 230000],
              [dict |-> TRUE, commodity |-> "Rice", modal_price |-> 0],
              [dict |-> TRUE, commodity |-> "Rice", modal_price |-> 280000],
              [dict |-> TRUE, commodity |-> "Onion", modal_price |-> 150050] >>
      [] out = "nonpositive" ->
           << [dict |-> TRUE, commodity |-> "Onion", modal_price |-> 0],
              [dict |-> TRUE, commodity |-> "Potato", modal_price |-> -90000] >>
      [] out = "nondict" ->
           << [dict |-> FALSE, commodity |-> "", modal_price |-> 0] >>
      [] out = "fraction" ->
           << [dict |-> TRUE, commodity |-> "Onion", modal_price |-> 50],
              [dict |-> TRUE, commodity |-> "Wheat", modal_price |-> 210000] >>
      [] out = "many" ->
           [i \in 1..(Len(ManyCommodities) + 1) |->
               IF i = 1
               THEN [dict |-> TRUE, commodity |-> "Chilli", modal_price |-> 900000]
               ELSE [dict |-> TRUE, commodity |-> ManyCommodities[i - 1],
                     modal_price |-> 100000 + 1000 * i]]
      [] OTHER -> <<>>

\* lines 144-171: the loop over the records; int(modal) cuts the fraction
\* a faulty variant of SnapshotLoop: a commodity is marked as seen only
\* once a record of it has a positive price
RECURSIVE SnapshotLoopPriceFirst(_, _, _, _)
SnapshotLoopPriceFirst(records, i, seen, snapshot) == IF i > Len(records) THEN snapshot ELSE IF records[i].commodity \in seen \/ records[i].modal_price <= 0 THEN SnapshotLoopPriceFirst(records, i + 1, seen, snapshot) ELSE SnapshotLoopPriceFirst(records, i + 1, seen \cup {records[i].commodity}, Append(snapshot, [commodity |-> records[i].commodity, modal_price |-> records[i].modal_price \div 100, kind |-> "live"]))

RECURSIVE SnapshotLoop(_, _, _, _)
SnapshotLoop(records, i, seen, snapshot) ==
    IF i > Len(records) THEN snapshot
    ELSE LET rec == records[i] IN
         IF rec.commodity \in seen
         THEN SnapshotLoop(records, i + 1, seen, snapshot)
         ELSE IF rec.modal_price <= 0
              THEN SnapshotLoop(records, i + 1, seen \cup {rec.commodity}, snapshot)
              ELSE SnapshotLoop(records, i + 1, seen \cup {rec.commodity},
                     Append(snapshot, [commodity |-> rec.commodity,
                                       modal_price |-> rec.modal_price \div 100,
                                       kind |-> "live"]))

\* rec.get(...) on an entry that is no dict raises AttributeError
SnapshotRaises(records) == \E i \in 1..Len(records) : ~records[i].dict

\* _demo_mandi_data(region, lat, lon): the eight demo commodities
DemoCommodities ==
    <<"Wheat", "Rice", "Cotton", "Soybean", "Sugarcane", "Onion", "Potato", "Tomato">>
demo_mandi_data(region) ==
    [i \in 1..Len(DemoCommodities) |->
        [commodity |-> DemoCommodities[i], kind |-> "demo"]]

Min(a, b) == IF a <= b THEN a ELSE b

\* _fetch_mandi_data(region, lat, lon) given the answers q1, q2 to its first
\* and second query: the queries made, and the snapshot or the exception
fetch_mandi_data(region, c, q1, q2) ==
    LET state == MandiState(region, c)
        district == extract_state_district(region).district
        first == [state |-> state, district |-> district]
        second == [state |-> state, district |-> <<>>]
        records1 == AgmRecords(q1)
        records == IF records1 = <<>> THEN AgmRecords(q2) ELSE records1
        calls == IF records1 = <<>> THEN <<first, second>> ELSE <<first>>
        snapshot == SnapshotLoop(records, 1, {}, <<>>)
    IN IF state = <<>>
       THEN [calls |-> <<>>, raised |-> FALSE, snapshot |-> demo_mandi_data(region)]
       ELSE IF records = <<>>
       THEN [calls |-> calls, raised |-> FALSE, snapshot |-> demo_mandi_data(region)]
       ELSE IF SnapshotRaises(records)
       THEN [calls |-> calls, raised |-> TRUE, snapshot |-> <<>>]
       ELSE IF snapshot = <<>>
       THEN [calls |-> calls, raised |-> FALSE, snapshot |-> demo_mandi_data(region)]
       ELSE [calls |-> calls, raised |-> FALSE,
             snapshot |-> SubSeq(snapshot, 1, Min(SNAPSHOT_CAP, Len(snapshot)))]

\* cache_key = f"market_brain:{region}:{round(lat, 2)}:{round(lon, 2)}"
MarketKey(region, c) == <<region, Round2(c.lat), Round2(c.lon)>>

\* _get_cached(key), lines 89-96: the data, or None; an expired entry is deleted
MarketCacheHit(cache, k, t) ==
    /\ k \in DOMAIN cache
    /\ t - cache[k].timestamp < CACHE_TTL_HOURS * 3600
MarketCacheAfterGet(cache, k, t) ==
    IF k \in DOMAIN cache /\ ~MarketCacheHit(cache, k, t)
    THEN [x \in (DOMAIN cache) \ {k} |-> cache[x]]
    ELSE cache

\* _set_cached(key, data)
MarketSetCached(cache, k, t, data) == Put(cache, k, [data |-> data, timestamp |-> t])

\* what the Gemini call answers: a list with valid items, or anything that
\* generate_gemini_market_analysis turns into None
GeminiOutcomes == {"ok", "invalid"}

\* gemini_service lines 529-532: insert, evicting the oldest key when full
GeminiCacheInsert(cache, k) ==
    LET kept == IF Len(cache) >= GEMINI_MARKET_CACHE_MAX THEN Tail(cache) ELSE cache
    IN IF \E i \in 1..Len(kept) : kept[i] = k THEN kept ELSE Append(kept, k)

GeminiCached(cache, k) == \E i \in 1..Len(cache) : cache[i] = k

\* the "snapshot" entries are live when a record carries a state or district
MandiSource(snapshot) ==
    IF \E i \in 1..Len(snapshot) : snapshot[i].kind = "live"
    THEN "AGMARKNET (Live)" ELSE "Agmarknet (Demo)"

\* a faulty variant of MarketResult: the market resolver was given the
\* caller's default in place of the resolved region
MarketResultBeforeRegion(region, c, snapshot, source, t) ==
    [region |-> << <<"Unknown">> >>, at |-> c, mandi |-> MandiSource(snapshot),
     snapshot |-> snapshot, source |-> source, generated_at |-> t]

\* the dict of lines 367-379
MarketResult(region, c, snapshot, source, t) ==
    [region |-> region, at |-> c, mandi |-> MandiSource(snapshot),
     snapshot |-> snapshot, source |-> source, generated_at |-> t]

(***************************************************************************)
(* The aggregator: data_fusion.get_location_context                        *)
(***************************************************************************)
\* f"Market Brain ({market_brain.get('source', 'Analysis')})"
MarketLabel(market_brain) ==
    CASE market_brain.source = "Gemini AI" -> "Market Brain (Gemini AI)"
      [] market_brain.source = "Fallback" -> "Market Brain (Fallback)"
      [] OTHER -> "Market Brain (Analysis)"

\* a faulty variant of DataSources: a heuristic (fallback) market brain is
\* taken for an absent one
DataSourcesNoFallback(weather, land_class, satellite, soil_source, market_brain) ==
    << IF weather.live = "True" THEN "Open-Meteo (Live)"
                                ELSE "Open-Meteo (Cached Fallback)",
       IF land_class.suffix = "(ISRO Bhuvan)" THEN "ISRO Bhuvan LULC"
                                              ELSE "Land Use (Default)",
       IF satellite.live = "True" THEN satellite.source ELSE "NDVI (Estimate)",
       soil_source >>
    \o (IF market_brain.source # "Fallback" THEN <<MarketLabel(market_brain)>> ELSE <<>>)

\* lines 124-145: the provenance list
DataSources(weather, land_class, satellite, soil_source, market_brain) ==
    << IF weather.live = "True" THEN "Open-Meteo (Live)"
                                ELSE "Open-Meteo (Cached Fallback)",
       IF land_class.suffix = "(ISRO Bhuvan)" THEN "ISRO Bhuvan LULC"
                                              ELSE "Land Use (Default)",
       IF satellite.live = "True" THEN satellite.source ELSE "NDVI (Estimate)",
       soil_source >>
    \o (IF market_brain # NoData THEN <<MarketLabel(market_brain)>> ELSE <<>>)

\* a faulty variant of PopLive: the key stays in the dict
PopLiveKeepsKey(d) == d

\* dict.pop("_live", None) / dict.pop("_source", None)
PopLive(d) == [d EXCEPT !.live = "absent"]
PopSource(d) == [d EXCEPT !.src = "absent"]

\* soil.pop("_source", None) on the dict held in the soil cache under key
SoilCachePopSource(cache, key) ==
    [i \in 1..Len(cache) |->
        IF cache[i].key = key
        THEN [key |-> key, value |-> PopSource(cache[i].value)] ELSE cache[i]]

\* satellite.pop("_live", None) on the dict held in the NDVI cache under key
NdviCachePopLive(cache, key) ==
    [cache EXCEPT ![key] = [ts |-> @.ts, data |-> PopLive(@.data)]]

\* create_task x 4 (lines 98-101) and each task's run to its first request
Start(r, c) ==
    /\ pc[r] = "idle"
    /\ nreq < MaxRequests
    /\ nreq' = nreq + 1
    /\ pc' = [pc EXCEPT ![r] = "gather"]
    /\ coord' = [coord EXCEPT ![r] = c]
    /\ weather_task' = [weather_task EXCEPT ![r] = WeatherBegin(c)]
    /\ bhuvan_task' = [bhuvan_task EXCEPT ![r] =
                         [st |-> "pend", res |-> NoData, log |-> <<>>]]
    /\ agro_task' = [agro_task EXCEPT ![r] = NdviBegin(c)]
    /\ sisindia_task' = [sisindia_task EXCEPT ![r] = SoilBegin(c)]
    /\ UNCHANGED <<now, fixed, caches, ctx>>

\* the exception leaves get_location_context
Raise(r) ==
    /\ pc' = [pc EXCEPT ![r] = "raised"]
    /\ ctx' = [ctx EXCEPT ![r] = NoData]

\* lines 109-160 once the region and the market brain are known
Finish(r, region, market_brain, marketCalls) ==
    LET c == coord[r]
        key == CacheKey(c)
        weather == weather_task[r].res
        land_class == bhuvan_task[r].res
        satellite == ndvi_cache[key].data
        live_soil == sisindia_task[r].res
        soil == IF live_soil # NoData THEN SoilGetCached(soil_cache, key)
                                     ELSE lookup_soil(c)
        soil_source == IF live_soil # NoData THEN "SISIndia API (Live)"
                                            ELSE "Soil Database (Offline)"
    IN /\ ndvi_cache' = NdviCachePopLive(ndvi_cache, key)
       /\ soil_cache' = IF live_soil # NoData
                        THEN SoilCachePopSource(soil_cache, key) ELSE soil_cache
       /\ pc' = [pc EXCEPT ![r] = "done"]
       /\ ctx' = [ctx EXCEPT ![r] =
            [weather |-> PopLive(weather),
             soil |-> PopSource(soil),
             land_classification |-> land_class,
             satellite |-> PopLive(satellite),
             market_brain |-> market_brain,
             region |-> region,
             data_sources |->
                DataSources(weather, land_class, satellite, soil_source, market_brain),
             soil_offline |-> (live_soil = NoData),
             geo_calls |-> GeoCalls(c),
             market_calls |-> marketCalls]]

\* the four tasks have finished (lines 103-106)
JoinReady(r) ==
    /\ pc[r] = "gather"
    /\ weather_task[r].st = "done"
    /\ bhuvan_task[r].st = "done"
    /\ agro_task[r].st = "done"
    /\ sisindia_task[r].st \in {"done", "raised"}

\* The answers <<geo, q1, q2, g>> to the Nominatim request, the two AGMARKNET
\* queries and the Gemini call of one request; "unused" for a request that
\* is not made.
JoinInputs(r) ==
    IF ~JoinReady(r) THEN {}
    ELSE IF sisindia_task[r].st = "raised"
    THEN {<<"unused", "unused", "unused", "unused">>}
    ELSE LET c == coord[r]
             Geo == IF GeoCalls(c) = <<>> THEN {"unused"}
                    ELSE Answers("market", GeoOutcomes, "city_state", "timeout")
             Hit(geo) == MarketCacheHit(market_cache,
                                        MarketKey(get_region_name(c, geo), c), now)
             Q1(geo) == IF Hit(geo) THEN {"unused"}
                        ELSE Answers("market", AgmOutcomes, "records", "fail")
             Q2(q1) == IF q1 = "unused" \/ AgmRecords(q1) # <<>> THEN {"unused"}
                       ELSE Answers("market", AgmOutcomes, "records", "fail")
             G(geo, q1, q2) ==
                IF /\ q1 # "unused"
                   /\ ~SnapshotRaises(AgmRecords(q1)) /\ ~SnapshotRaises(AgmRecords(q2))
                   /\ env.GEMINI_API_KEY
                   /\ ~GeminiCached(gemini_cache, MarketKey(get_region_name(c, geo), c))
                THEN Answers("market", GeminiOutcomes, "ok", "invalid")
                ELSE {"unused"}
         IN UNION {UNION {UNION {{<<geo, q1, q2, g>> : g \in G(geo, q1, q2)} :
                                 q2 \in Q2(q1)} : q1 \in Q1(geo)} : geo \in Geo}

\* The aggregator resumes once the four tasks have finished and runs to its
\* return without yielding: the Nominatim request, the AGMARKNET requests and
\* the Gemini call are blocking calls.
Join(r, geo, q1, q2, g) ==
    /\ JoinReady(r)
    /\ IF sisindia_task[r].st = "raised"
       THEN /\ Raise(r)
            /\ UNCHANGED caches
       ELSE
       LET c == coord[r]
           region == get_region_name(c, geo)
           mkey == MarketKey(region, c)
           hit == MarketCacheHit(market_cache, mkey, now)
           afterGet == MarketCacheAfterGet(market_cache, mkey, now)
           mandi == fetch_mandi_data(region, c, q1, q2)
           gHit == GeminiCached(gemini_cache, mkey)
           source == IF env.GEMINI_API_KEY /\ (gHit \/ g = "ok")
                     THEN "Gemini AI" ELSE "Fallback"
           result == MarketResult(region, c, mandi.snapshot, source, now)
       IN IF hit
          THEN /\ Finish(r, region, market_cache[mkey].data, <<>>)
               /\ UNCHANGED <<market_cache, gemini_cache>>
          ELSE IF mandi.raised
          THEN /\ Raise(r)
               /\ market_cache' = afterGet
               /\ UNCHANGED <<weather_cache, ndvi_cache, soil_cache, gemini_cache>>
          ELSE /\ Finish(r, region, result, mandi.calls)
               /\ market_cache' = MarketSetCached(afterGet, mkey, now, result)
               /\ gemini_cache' = IF g = "ok" /\ ~gHit
                                  THEN GeminiCacheInsert(gemini_cache, mkey)
                                  ELSE gemini_cache
    /\ UNCHANGED <<now, nreq, fixed, weather_cache, coord, weather_task, bhuvan_task,
                   agro_task, sisindia_task>>

\* the caller has the result; the slot takes the next request
Return(r) ==
    /\ pc[r] \in {"done", "raised"}
    /\ pc' = [pc EXCEPT ![r] = "idle"]
    /\ coord' = [coord EXCEPT ![r] = cA]
    /\ weather_task' = [weather_task EXCEPT ![r] = IdleTask]
    /\ bhuvan_task' = [bhuvan_task EXCEPT ![r] = IdleTask]
    /\ agro_task' = [agro_task EXCEPT ![r] = IdleTask]
    /\ sisindia_task' = [sisindia_task EXCEPT ![r] = IdleTask]
    /\ ctx' = [ctx EXCEPT ![r] = NoData]
    /\ UNCHANGED <<now, nreq, fixed, caches>>

\* time passes
Tick ==
    /\ \E t \in Times : t > now /\ now' = t
    /\ UNCHANGED <<nreq, fixed, caches, pc, coord, weather_task, bhuvan_task, agro_task,
                   sisindia_task, ctx>>

Envs == [WEATHER_API_KEY : BOOLEAN, AGRO_SATELLITE_KEY : BOOLEAN,
         GEMINI_API_KEY : BOOLEAN]

\* the keys of the domains out of focus are configured
EnvOf(s) ==
    {e \in Envs : /\ s.focus # "weather" => e.WEATHER_API_KEY
                  /\ s.focus # "ndvi" => e.AGRO_SATELLITE_KEY
                  /\ s.focus # "market" => e.GEMINI_API_KEY}

\* the state of the aggregator and its caches after import
InitMain ==
    /\ now = 0
    /\ nreq = 0
    /\ weather_cache = EmptyMap
    /\ ndvi_cache = EmptyMap
    /\ soil_cache = <<>>
    /\ market_cache = EmptyMap
    /\ gemini_cache = <<>>
    /\ pc = [r \in Slots |-> "idle"]
    /\ coord = [r \in Slots |-> cA]
    /\ weather_task = [r \in Slots |-> IdleTask]
    /\ bhuvan_task = [r \in Slots |-> IdleTask]
    /\ agro_task = [r \in Slots |-> IdleTask]
    /\ sisindia_task = [r \in Slots |-> IdleTask]
    /\ ctx = [r \in Slots |-> NoData]
    /\ probe = NoProbe
    /\ crop_cache = <<>>
    /\ born = NoHistory
    /\ stats_cache = EmptyMap
    /\ call = NoCall

Init ==
    /\ InitMain
    /\ scenario \in Scenarios
    /\ env \in EnvOf(scenario)
    /\ soil_db = SOIL_DB
    /\ engine = NotLoaded

SoilUp == [status |-> "200", pH |-> "num", N |-> "num"]
SoilDown == [status |-> "timeout", pH |-> "absent", N |-> "absent"]

Next ==
    \/ \E r \in MainSlots, c \in Coords : Start(r, c)
    \/ \E r \in MainSlots, out \in Answers("weather", OpenMeteoOutcomes, "ok", "timeout") :
          OpenMeteoResponse(r, out)
    \/ \E r \in MainSlots, out \in Answers("weather", WeatherApiOutcomes, "ok", "timeout") :
          WeatherApiResponse(r, out)
    \/ \E r \in MainSlots, out \in Answers("land", BhuvanOutcomes, "code_known", "timeout") :
          BhuvanResponse(r, out)
    \/ \E r \in MainSlots, out \in Answers("ndvi", ModisOutcomes, "ok", "timeout") :
          ModisResponse(r, out)
    \/ \E r \in MainSlots,
          out \in Answers("ndvi", AgroPolygonsOutcomes, "has_polygon", "timeout") :
          AgroPolygonsResponse(r, out)
    \/ \E r \in MainSlots, out \in Answers("ndvi", AgroCreateOutcomes, "created", "timeout") :
          AgroCreateResponse(r, out)
    \/ \E r \in MainSlots, out \in Answers("ndvi", AgroHistoryOutcomes, "ok", "timeout") :
          AgroHistoryResponse(r, out)
    \/ \E r \in MainSlots, out \in Answers("soil", SoilOutcomes, SoilUp, SoilDown) :
          DistrictResponse(r, out)
    \/ \E r \in MainSlots, out \in Answers("soil", SoilOutcomes, SoilUp, SoilDown) :
          GriddedResponse(r, out)
    \/ \E r \in MainSlots : \E a \in JoinInputs(r) : Join(r, a[1], a[2], a[3], a[4])
    \/ \E r \in MainSlots : Return(r)
    \/ Tick

Spec == Init /\ [][Next]_vars

(***************************************************************************)
(* The live soil resolver alone, called for two requests in flight at      *)
(* once: fetch_sisindia_soil is the task of data_fusion line 101.          *)
(***************************************************************************)
\* the calls one run makes
MaxSoilCalls == 4

SoilCoords == {cA, cA2, cS, cL, cLo}

\* fetch_sisindia_soil(lat, lon), up to its first await
SoilCall(r, c) ==
    /\ pc[r] = "idle"
    /\ nreq < MaxSoilCalls
    /\ nreq' = nreq + 1
    /\ pc' = [pc EXCEPT ![r] = "gather"]
    /\ coord' = [coord EXCEPT ![r] = c]
    /\ sisindia_task' = [sisindia_task EXCEPT ![r] = SoilBegin(c)]
    /\ UNCHANGED <<now, fixed, caches, weather_task, bhuvan_task, agro_task, ctx>>

\* the call has returned or raised; the slot takes the next call
SoilReturn(r) ==
    /\ pc[r] = "gather"
    /\ weather_task[r].st = "idle"
    /\ sisindia_task[r].st \in {"done", "raised"}
    /\ pc' = [pc EXCEPT ![r] = "idle"]
    /\ coord' = [coord EXCEPT ![r] = cA]
    /\ sisindia_task' = [sisindia_task EXCEPT ![r] = IdleTask]
    /\ UNCHANGED <<now, nreq, fixed, caches, weather_task, bhuvan_task, agro_task, ctx>>

SoilInit == Init /\ scenario = [focus |-> "soil", others |-> "up"]

SoilNext ==
    \/ \E r \in Slots, c \in SoilCoords : SoilCall(r, c)
    \/ \E r \in Slots, out \in SoilOutcomes : DistrictResponse(r, out)
    \/ \E r \in Slots, out \in SoilOutcomes : GriddedResponse(r, out)
    \/ \E r \in Slots : SoilReturn(r)

SoilSpec == SoilInit /\ [][SoilNext]_vars

(***************************************************************************)
(* The cache primitives alone: the write and the read of each domain       *)
(* cache, called directly.                                                 *)
(***************************************************************************)
CacheNames == {"weather", "ndvi", "soil", "market"}
CacheCoords == {cA, cS, cK}

\* the instants of the clock: the 600 s TTL and the market cache's 6 h
CacheTimes == {0, 300, 600, 21600}

\* the key a resolver computes for a coordinate
CacheKeyOf(name, c) ==
    IF name = "market" THEN MarketKey(<< <<"Uttar Pradesh">> >>, c) ELSE CacheKey(c)

\* payloads the resolvers write
Payloads(name, c) ==
    CASE name = "weather" ->
           {LiveWeather("OpenMeteo", "ok", c), LiveWeather("WeatherAPI", "no_current", c)}
      [] name = "ndvi" -> {ModisNdvi(c), EstimateNdvi(c)}
      [] name = "soil" ->
           {ConvertToSoilFormat(SoilUp),
            ConvertToSoilFormat([status |-> "200", pH |-> "num", N |-> "absent"])}
      [] name = "market" ->
           {MarketResult(<< <<"Uttar Pradesh">> >>, c,
                         demo_mandi_data(<< <<"Uttar Pradesh">> >>), src, now) :
              src \in {"Gemini AI", "Fallback"}}

\* the write of each cache
CachePut(name, c, v) ==
    LET k == CacheKeyOf(name, c) IN
    /\ scenario.focus = name
    /\ weather_cache' = IF name = "weather"
                        THEN WeatherCachePut(weather_cache, k, now, v) ELSE weather_cache
    /\ ndvi_cache' = IF name = "ndvi"
                     THEN NdviCachePut(ndvi_cache, k, now, v) ELSE ndvi_cache
    /\ soil_cache' = IF name = "soil" THEN SoilSetCached(soil_cache, k, v) ELSE soil_cache
    /\ market_cache' = IF name = "market"
                       THEN MarketSetCached(market_cache, k, now, v) ELSE market_cache
    /\ probe' = [op |-> "put", cache |-> name, key |-> k, value |-> v, since |-> now,
                 prev |-> IF probe.key = k THEN probe.op ELSE "other"]
    /\ UNCHANGED <<now, env, scenario, aside, nreq, gemini_cache, pc, coord, weather_task,
                   bhuvan_task, agro_task, sisindia_task, ctx>>

\* the read of each cache: the payload, or NoData for None
CacheGet(name, c) ==
    LET k == CacheKeyOf(name, c)
        result ==
          CASE name = "weather" ->
                 IF WeatherCacheHit(weather_cache, k, now)
                 THEN [value |-> WeatherCacheGet(weather_cache, k),
                       since |-> weather_cache[k].ts]
                 ELSE [value |-> NoData, since |-> 0]
            [] name = "ndvi" ->
                 IF NdviCacheHit(ndvi_cache, k, now)
                 THEN [value |-> ndvi_cache[k].data, since |-> ndvi_cache[k].ts]
                 ELSE [value |-> NoData, since |-> 0]
            [] name = "soil" -> [value |-> SoilGetCached(soil_cache, k), since |-> 0]
            [] name = "market" ->
                 IF MarketCacheHit(market_cache, k, now)
                 THEN [value |-> market_cache[k].data,
                       since |-> market_cache[k].timestamp]
                 ELSE [value |-> NoData, since |-> 0]
    IN /\ scenario.focus = name
       /\ market_cache' = IF name = "market"
                          THEN MarketCacheAfterGet(market_cache, k, now) ELSE market_cache
       /\ probe' = [op |-> "get", cache |-> name, key |-> k, value |-> result.value,
                    since |-> result.since,
                    prev |-> IF probe.key = k THEN probe.op ELSE "other"]
       /\ UNCHANGED <<now, env, scenario, aside, nreq, weather_cache, ndvi_cache, soil_cache,
                      gemini_cache, pc, coord, weather_task, bhuvan_task, agro_task,
                      sisindia_task, ctx>>

\* time passes
CacheTick ==
    /\ \E t \in CacheTimes : t > now /\ now' = t
    /\ UNCHANGED <<nreq, fixed, caches, pc, coord, weather_task, bhuvan_task, agro_task,
                   sisindia_task, ctx>>

CacheInit == Init /\ scenario.focus \in CacheNames /\ scenario.others = "up"

CacheNext ==
    \/ \E name \in CacheNames, c \in CacheCoords :
          \E v \in Payloads(name, c) : CachePut(name, c, v)
    \/ \E name \in CacheNames, c \in CacheCoords : CacheGet(name, c)
    \/ CacheTick

CacheSpec == CacheInit /\ [][CacheNext]_vars

(***************************************************************************)
(* The capacity-limited caches alone: the soil cache's _set_cached and     *)
(* _get_cached called directly, and generate_gemini_crop_recommendation    *)
(* with its crop cache.                                                    *)
(***************************************************************************)
\* scaled down from the source's 200 so that a full cache is reachable
CROP_CACHE_MAX == 2

\* round(x, 1) of a coordinate in 0.0001 degree (the inputs hold no ties)
Round1(x) ==
    IF x >= 0 THEN ((x + 500) \div 1000) * 1000
              ELSE -((((-x) + 500) \div 1000) * 1000)

\* cache_key = f"{region}|{round(lat,1)}|{round(lon,1)}|{now.month}-{now.year}"
CropKey(region, c, month) == <<region, Round1(c.lat), Round1(c.lon), month>>

\* what the Gemini call of the crop advisor answers: a list with valid
\* items; an empty text; text that is no JSON; JSON that is no list; a list
\* without a valid item; an exception of the call
CropAdvisorOutcomes == {"ok", "empty", "not_json", "not_list", "no_valid", "error"}

\* the validated list of lines 382-397 for an answer with valid items
Validated(region) == [crops |-> <<"mustard", "wheat", "potato">>, region |-> region]

\* lines 403-406: insert, evicting the first key of the dict when it is full
CropCacheInsert(cache, key, value) ==
    IF Len(cache) >= CROP_CACHE_MAX
    THEN SoilAssign(Tail(cache), key, value)
    ELSE SoilAssign(cache, key, value)

\* The history of a dict after a write of key: the del of the write (when
\* the dict holds cap keys or more) ends the life of the key it removes, and
\* the assignment inserts key when the dict does not hold it then.
BornAfterWrite(hist, cache, cap, key) ==
    LET deleted == IF Len(cache) >= cap THEN {cache[1].key} ELSE {}
        alive == SelectSeq(hist, LAMBDA k : k \notin deleted)
    IN IF \E i \in 1..Len(alive) : alive[i] = key THEN alive ELSE Append(alive, key)

\* the call before this one, for the record of this one
Before == IF call.fn = "none" THEN [fn |-> "none", key |-> <<>>, hit |-> FALSE]
                              ELSE [fn |-> call.fn, key |-> call.key, hit |-> call.hit]

\* sisindia_soil._set_cached(key, value), called directly
SoilSet(c, v) ==
    LET key == CacheKey(c) IN
    /\ scenario.focus = "soil"
    /\ soil_cache' = SoilSetCached(soil_cache, key, v)
    /\ born' = [born EXCEPT !.soil = BornAfterWrite(@, soil_cache, MAX_CACHE_SIZE, key)]
    /\ call' = [fn |-> "_set_cached", key |-> key, hit |-> FALSE,
                new |-> key \notin SoilKeys(soil_cache),
                full |-> Len(soil_cache) >= MAX_CACHE_SIZE, before |-> Before]
    /\ UNCHANGED <<now, env, scenario, nreq, probe, weather_cache, ndvi_cache,
                   market_cache, gemini_cache, crop_cache, soil_db, stats_cache, engine, pc, coord,
                   weather_task, bhuvan_task, agro_task, sisindia_task, ctx>>

\* sisindia_soil._get_cached(key), called directly
SoilGet(c) ==
    LET key == CacheKey(c) IN
    /\ scenario.focus = "soil"
    /\ call' = [fn |-> "_get_cached", key |-> key,
                hit |-> SoilGetCached(soil_cache, key) # NoData,
                new |-> FALSE, full |-> FALSE, before |-> Before]
    /\ UNCHANGED <<now, env, scenario, nreq, probe, caches, crop_cache, born, soil_db, stats_cache,
                   engine, pc, coord, weather_task, bhuvan_task, agro_task,
                   sisindia_task, ctx>>

\* generate_gemini_crop_recommendation(region, soil, weather, lat, lon): the
\* function holds no await, so a call runs from its cache check to its
\* return without another call in between
CropRecommendation(region, c, month, out) ==
    LET key == CropKey(region, c, month)
        hit == SoilIndex(crop_cache, key) # {}
        insert == env.GEMINI_API_KEY /\ ~hit /\ out = "ok"
    IN /\ scenario.focus = "crop"
       /\ crop_cache' = IF insert
                        THEN CropCacheInsert(crop_cache, key, Validated(region))
                        ELSE crop_cache
       /\ born' = IF insert
                  THEN [born EXCEPT !.crop =
                          BornAfterWrite(@, crop_cache, CROP_CACHE_MAX, key)]
                  ELSE born
       /\ call' = [fn |-> "generate_gemini_crop_recommendation", key |-> key,
                   hit |-> env.GEMINI_API_KEY /\ hit,
                   new |-> insert,
                   full |-> insert /\ Len(crop_cache) >= CROP_CACHE_MAX,
                   before |-> Before]
       /\ UNCHANGED <<now, env, scenario, nreq, probe, caches, soil_db, stats_cache, engine, pc,
                      coord, weather_task, bhuvan_task, agro_task, sisindia_task, ctx>>

\* the inputs of the direct calls: Greater Noida, Sultanpur, Colombo, Bhopal
cB == [lat |-> 232599, lon |-> 774126]
EvictCoords == {cA, cS, cO, cB}
EvictMonths == {11}
EvictRegions == {"Dadri, Uttar Pradesh"}

\* one run studies one of the two caches
EvictInit ==
    /\ InitMain
    /\ scenario \in [focus : {"soil", "crop"}, others : {"up"}]
    /\ env \in EnvOf([focus |-> "market", others |-> "up"])
    /\ soil_db = SOIL_DB
    /\ engine = NotLoaded

EvictNext ==
    \/ \E c \in EvictCoords : \E v \in Payloads("soil", c) : SoilSet(c, v)
    \/ \E c \in EvictCoords : SoilGet(c)
    \/ \E region \in EvictRegions, c \in EvictCoords, month \in EvictMonths,
          out \in CropAdvisorOutcomes : CropRecommendation(region, c, month, out)

EvictSpec == EvictInit /\ [][EvictNext]_vars

(***************************************************************************)
(* The region matcher alone: _lookup_soil and _get_region_name called      *)
(* directly on each of the tables.                                         *)
(***************************************************************************)
\* the upper corner of the Greater Noida box; a point south of the Greater
\* Noida and Noida boxes; two points 149.997 km and 150.005 km from the
\* centre of the Lucknow box
cN == [lat |-> 286000, lon |-> 776000]
cD == [lat |-> 284000, lon |-> 775000]
cJ == [lat |-> 260000, lon |-> 821197]
cF == [lat |-> 260000, lon |-> 821198]
RegionCoords == {cA, cA2, cN, cD, cS, cK, cJ, cF, cO}

\* _lookup_soil(lat, lon), called directly
LookupSoilCall(c) ==
    /\ call' = [fn |-> "_lookup_soil", at |-> c, geo |-> "unused",
                result |-> lookup_soil(c)]
    /\ UNCHANGED <<now, env, scenario, nreq, probe, caches, crop_cache, born, soil_db, stats_cache,
                   engine, pc, coord, weather_task, bhuvan_task, agro_task,
                   sisindia_task, ctx>>

\* _get_region_name(lat, lon), called directly; geo is the Nominatim answer
GetRegionNameCall(c, geo) ==
    /\ geo \in (IF GeoCalls(c) = <<>> THEN {"unused"}
                                     ELSE GeoOutcomes \cup GeoOutcomesMore)
    /\ call' = [fn |-> "_get_region_name", at |-> c, geo |-> geo,
                calls |-> GeoCalls(c), result |-> get_region_name(c, geo)]
    /\ UNCHANGED <<now, env, scenario, nreq, probe, caches, crop_cache, born, soil_db, stats_cache,
                   engine, pc, coord, weather_task, bhuvan_task, agro_task,
                   sisindia_task, ctx>>

RegionInit ==
    /\ InitMain
    /\ scenario = [focus |-> "soil", others |-> "up"]
    /\ env = [WEATHER_API_KEY |-> TRUE, AGRO_SATELLITE_KEY |-> TRUE,
              GEMINI_API_KEY |-> TRUE]
    /\ soil_db \in SoilTables
    /\ engine = NotLoaded

RegionNext ==
    \/ \E c \in RegionCoords : LookupSoilCall(c)
    \/ \E c \in RegionCoords, geo \in GeoOutcomes \cup GeoOutcomesMore \cup {"unused"} :
          GetRegionNameCall(c, geo)

RegionSpec == RegionInit /\ [][RegionNext]_vars

(***************************************************************************)
(* The crop classifier: crop_engine.CropEngine.predict                     *)
(*                                                                         *)
(* A reference row is its row of _feature_matrix and its label. The rows   *)
(* studied differ in one feature, so the Euclidean distance of line 88 is  *)
(* the absolute difference in that feature; the query is given by its      *)
(* normalised value (line 85 applies to it the map _load applied to the    *)
(* rows). Distances are in units of 1e-6, the epsilon of line 99, so the   *)
(* weight 1 / (dist + 1e-6) is 1 / (dist + 1) in units of 1e6.             *)
(* Confidences are in hundredths.                                          *)
(***************************************************************************)
Row(x, label) == [x |-> x, label |-> label]

\* the reference rows a loaded engine can hold
Datasets ==
    { << Row(0, "rice"), Row(80, "maize"), Row(81, "wheat") >>,
      << Row(10, "rice"), Row(11, "maize"), Row(11, "maize") >>,
      << Row(10, "rice"), Row(11, "maize"), Row(11, "maize"), Row(11, "maize") >>,
      << Row(10, "rice"), Row(60, "maize"), Row(70, "wheat") >>,
      << Row(10, "rice"), Row(10, "maize"), Row(40, "wheat") >>,
      << Row(9, "rice"), Row(11, "rice"), Row(40, "rice") >>,
      << Row(9, "rice"), Row(10, "maize"), Row(11, "wheat"), Row(12, "rice"),
         Row(13, "maize") >>,
      << Row(40, "wheat") >>,
      \* a file with a header line and no record: read_csv succeeds
      << >> }

Queries == {9, 10, 11, 40}
TopKs == {1, 2, 3}

\* line 88: distances to every row
Distances(rows, q) ==
    [i \in 1..Len(rows) |-> IF rows[i].x >= q THEN rows[i].x - q ELSE q - rows[i].x]

\* np.argsort(distances): the row indices by ascending distance; the order
\* of rows at equal distance is not specified by the default sort
ArgSorts(dist) ==
    {p \in [1..Len(dist) -> 1..Len(dist)] :
        /\ \A i, j \in 1..Len(dist) : i # j => p[i] # p[j]
        /\ \A i \in 1..(Len(dist) - 1) : dist[p[i]] <= dist[p[i + 1]]}

\* np.argsort is a function of its argument: the same distances give the
\* same order. Which order rows at equal distance get is fixed by the sort
\* routine; here by a ranking of the rows, any ranking being possible.
Rankings(n) == {p \in [1..n -> 1..n] : \A i, j \in 1..n : i # j => p[i] # p[j]}
ArgSortBy(dist, rank) ==
    CHOOSE p \in ArgSorts(dist) :
        \A i \in 1..(Len(dist) - 1) :
            dist[p[i]] = dist[p[i + 1]] => rank[p[i]] < rank[p[i + 1]]

\* The columns of raw (line 47) as far as the basis depends on them: the
\* feature in which the rows differ, and a feature with one value in every
\* row (6.5, in tenths)
StudiedColumn(d) == [i \in 1..Len(d) |-> d[i].x]
ConstantColumn(d) == [i \in 1..Len(d) |-> 65]

RECURSIVE SumOf(_)
SumOf(col) == IF col = <<>> THEN 0 ELSE Head(col) + SumOf(Tail(col))

\* raw.std(axis=0) of a column (line 49), kept as n * n times its square,
\* n * sum(x * x) - sum(x) * sum(x), which is zero exactly when the deviation
\* is; -1 stands for the nan of a column without rows
RawStd(col) ==
    IF col = <<>> THEN -1
    ELSE Len(col) * SumOf([i \in 1..Len(col) |-> col[i] * col[i]])
            - SumOf(col) * SumOf(col)

\* a faulty variant of StoredStd: a zero deviation is stored as it is
StoredStdUnreplaced(std) == std

\* line 51: self._stds[self._stds == 0] = 1.0
StoredStd(std) == IF std = 0 THEN 1 ELSE std

\* _load on a file with the rows d (lines 44-53): the means (kept as the
\* column sums), the deviations, the feature matrix with the labels; and
\* what np.argsort answers for the distances of each query
Load(d, rank) ==
    [loaded |-> TRUE, rows |-> d,
     means |-> <<SumOf(StudiedColumn(d)), SumOf(ConstantColumn(d))>>,
     stds |-> <<StoredStd(RawStd(StudiedColumn(d))),
                StoredStd(RawStd(ConstantColumn(d)))>>,
     argsort |-> [q \in Queries |-> ArgSortBy(Distances(d, q), rank)]]

Engines == {NotLoaded} \cup {Load(d, rank) : d \in Datasets, rank \in Rankings(5)}

RECURSIVE Product(_)
Product(s) == IF s = <<>> THEN 1 ELSE Head(s) * Product(Tail(s))

\* line 99: weight = 1.0 / (dist + 1e-6), as an integer: every weight of
\* one prediction is multiplied by the product of the neighbours' (dist + 1)
Weight(dist, nearest, i) ==
    Product([j \in 1..Len(nearest) |-> dist[nearest[j]] + 1]) \div (dist[i] + 1)

\* line 100: crop_scores[label] = crop_scores.get(label, 0.0) + weight; the
\* dict is the sequence of its items in insertion order
AddScore(scores, label, weight) ==
    IF \E i \in 1..Len(scores) : scores[i].label = label
    THEN [i \in 1..Len(scores) |->
            IF scores[i].label = label
            THEN [label |-> label, score |-> scores[i].score + weight]
            ELSE scores[i]]
    ELSE Append(scores, [label |-> label, score |-> weight])

\* lines 97-100: the loop over the first j neighbours
RECURSIVE CropScores(_, _, _, _)
CropScores(rows, dist, nearest, j) ==
    IF j = 0 THEN <<>>
    ELSE AddScore(CropScores(rows, dist, nearest, j - 1), rows[nearest[j]].label,
                  Weight(dist, nearest, nearest[j]))

\* line 103: sorted(..., key=score, reverse=True), a stable sort
RECURSIVE SortedCrops(_)
SortedCrops(scores) ==
    IF scores = <<>> THEN <<>>
    ELSE LET n == Len(scores)
             e == scores[n]
             front == SortedCrops(SubSeq(scores, 1, n - 1))
             k == Cardinality({i \in 1..Len(front) : front[i].score >= e.score})
         IN SubSeq(front, 1, k) \o <<e>> \o SubSeq(front, k + 1, Len(front))

\* line 104: total = sum(s for _, s in sorted_crops), over every label found
RECURSIVE SumScores(_)
SumScores(scores) ==
    IF scores = <<>> THEN 0 ELSE Head(scores).score + SumScores(Tail(scores))

\* line 108: round(float(min(score / total, 1.0)), 2), in hundredths
Confidence(score, total) ==
    Min((100 * score) \div total
          + (IF 2 * ((100 * score) % total) >= total THEN 1 ELSE 0), 100)

\* score / total lies halfway between two hundredths: what round() returns
\* then depends on the float nearest to the quotient
RoundingTie(score, total) == 2 * ((100 * score) % total) = total

\* a faulty variant of KNeighbours: no over-sampling
KNeighboursNoOversampling(top_k, n) == Min(top_k, n)

\* line 91: k_neighbours = min(top_k * 4, len(distances))
KNeighbours(top_k, n) == Min(top_k * 4, n)

\* predict(n, p, k, temperature, humidity, ph, rainfall, top_k) with the
\* query's normalised value q and the argsort order of the rows
predict(q, top_k, order) ==
    IF ~engine.loaded
    THEN [results |-> << [crop |-> "wheat", confidence |-> 50] >>,
          scores |-> <<>>, nearest |-> <<>>, tie |-> FALSE]
    ELSE LET dist == Distances(engine.rows, q)
             k_neighbours == KNeighbours(top_k, Len(dist))
             nearest == SubSeq(order, 1, k_neighbours)
             sorted_crops == SortedCrops(CropScores(engine.rows, dist, nearest,
                                                    k_neighbours))
             total == SumScores(sorted_crops)
             top == SubSeq(sorted_crops, 1, Min(top_k, Len(sorted_crops)))
         IN [results |-> [i \in 1..Len(top) |->
                            [crop |-> top[i].label,
                             confidence |-> Confidence(top[i].score, total)]],
             scores |-> sorted_crops,
             nearest |-> nearest,
             tie |-> \E i \in 1..Len(top) : RoundingTie(top[i].score, total)]

\* crop_engine.predict(...), called directly
PredictCall(q, top_k, order) ==
    /\ call' = [fn |-> "predict", query |-> q, top_k |-> top_k,
                \* history: the first call of the run, and whether this is it
                first |-> IF call.fn = "predict" THEN call.first
                          ELSE [query |-> q, top_k |-> top_k,
                                results |-> predict(q, top_k, order).results],
                again |-> call.fn = "predict"]
                 @@ predict(q, top_k, order)
    /\ UNCHANGED <<now, env, scenario, nreq, probe, caches, crop_cache, born, soil_db, stats_cache,
                   engine, pc, coord, weather_task, bhuvan_task, agro_task,
                   sisindia_task, ctx>>

EngineInit ==
    /\ InitMain
    /\ scenario = [focus |-> "soil", others |-> "up"]
    /\ env = [WEATHER_API_KEY |-> TRUE, AGRO_SATELLITE_KEY |-> TRUE,
              GEMINI_API_KEY |-> TRUE]
    /\ soil_db = SOIL_DB
    /\ engine \in Engines

EngineNext ==
    \E q \in Queries, top_k \in TopKs :
        PredictCall(q, top_k, IF engine.loaded THEN engine.argsort[q] ELSE << >>)

EngineSpec == EngineInit /\ [][EngineNext]_vars

(***************************************************************************)
(* The synthetic estimators: _estimate_weather and _estimate_ndvi          *)
(*                                                                         *)
(* Degrees Celsius, percent, millimetres and index values are kept in      *)
(* millionths until the round() of the source, whose result is kept in     *)
(* the unit of its last digit: tenths for temp, humidity and rain,         *)
(* hundredths for moisture, thousandths for the vegetation index.          *)
(***************************************************************************)
\* Mumbai (coastal band), a point north of 30N, Sydney, a point at 70N, and
\* Jaisalmer (arid zone)
cM == [lat |-> 190760, lon |-> 728770]
cH == [lat |-> 315000, lon |-> 770000]
cZ == [lat |-> -338700, lon |-> 1512100]
cP == [lat |-> 700000, lon |-> 800000]
cR == [lat |-> 269000, lon |-> 709000]
EstimateCoords == {cA, cM, cH, cZ, cP, cR}

\* the clock of this part advances by 15 days, EstimateTicks times
EstimateTicks == 25

\* datetime.datetime.now().month, the clock counting the seconds of local
\* time from the start of a year of 365 days
MonthOf(t) ==
    LET day == (t \div 86400) % 365
        first == <<0, 31, 59, 90, 120, 151, 181, 212, 243, 273, 304, 334>>
    IN Cardinality({m \in 1..12 : first[m] <= day})

\* the coordinate terms, in millionths:
\*   temp     math.sin(lat * 3.7 + lon * 2.3) * 1.5      (line 303)
\*   humidity math.cos(lat * 2.1 + lon * 1.8) * 5.0      (line 318)
\*   rain     abs(math.sin(lon * 0.5)) * 6.0             (line 325)
\*   ndvi     math.sin(lat * 5.3 + lon * 3.7) * 0.04     (line 601)
Variation(c) ==
    CASE c = cA -> [temp |-> 1143937, humidity |-> -945932, rain |-> 5211654, ndvi |-> -33483]
      [] c = cM -> [temp |-> -800261, humidity |-> -106994, rain |-> 5713664, ndvi |-> 1590]
      [] c = cH -> [temp |-> -1494075, humidity |-> -4271802, rain |-> 4307848, ndvi |-> -20543]
      [] c = cZ -> [temp |-> 833392, humidity |-> 4999701, rain |-> 1231836, ndvi |-> 6638]
      [] c = cP -> [temp |-> -53143, humidity |-> -1959425, rain |-> 4470679, ndvi |-> 33272]
      [] c = cR -> [temp |-> -1442815, humidity |-> -1605211, rain |-> 4671785, ndvi |-> 14295]

\* round(x, n): x in millionths to the nearest multiple of unit, in units
RoundTo(x, unit) == (x + unit \div 2) \div unit

Clamp(lo, x, hi) == IF x < lo THEN lo ELSE IF x > hi THEN hi ELSE x

\* a faulty variant of SeasonalAdjustment: the winter and pre-monsoon
\* offsets exchanged
SeasonalAdjustmentExchanged(lat, month) ==
    IF lat <= 0 THEN 0 ELSE IF month \in {12, 1, 2} THEN 4000000 ELSE IF month \in {3, 4, 5} THEN -8000000 ELSE IF month \in {6, 7, 8, 9} THEN 1000000 ELSE -2000000

\* lines 283-292: the seasonal adjustment of the Northern Hemisphere
SeasonalAdjustment(lat, month) ==
    IF lat <= 0 THEN 0
    ELSE IF month \in {12, 1, 2} THEN -8000000
    ELSE IF month \in {3, 4, 5} THEN 4000000
    ELSE IF month \in {6, 7, 8, 9} THEN 1000000
    ELSE -2000000

\* lines 277-304: round(base_temp + micro_variation, 1), before the clamp
TempBeforeClamp(c, month) ==
    LET abs_lat == IF c.lat < 0 THEN -c.lat ELSE c.lat
        seasonal == 30000000 - (abs_lat - 100000) * 55 + SeasonalAdjustment(c.lat, month)
        altitude == IF abs_lat > 300000 THEN seasonal - 3000000 ELSE seasonal
        coastal == IF \/ 720000 < c.lon /\ c.lon < 740000
                      \/ 850000 < c.lon /\ c.lon < 900000
                   THEN altitude - altitude \div 20 + 1000000
                   ELSE altitude
    IN RoundTo(coastal + Variation(c).temp, 100000)

\* lines 277-338 for the month read at line 276
WeatherEstimate(c, month) ==
    LET temp == Clamp(50, TempBeforeClamp(c, month), 480)
        base_humidity ==
            50000000
              + (IF month \in {6, 7, 8, 9} THEN 20000000
                 ELSE IF month \in {12, 1, 2} THEN -10000000 ELSE 0)
              + (IF c.lon < 740000 \/ c.lon > 860000 THEN 12000000 ELSE 0)
        humidity == Clamp(150, RoundTo(base_humidity + Variation(c).humidity, 100000), 950)
        rain == IF month \in {6, 7, 8, 9}
                THEN RoundTo(2000000 + Variation(c).rain, 100000) ELSE 0
        moisture == Clamp(5, RoundTo(200000 + (humidity - 400) * 300 + rain * 1000,
                                     10000), 60)
    IN [temp |-> temp, humidity |-> humidity, rain |-> rain, moisture |-> moisture,
        live |-> "False"]

\* a faulty variant of estimate_weather: the day taken for the month
estimate_weather_by_day(c, t) == WeatherEstimate(c, 1 + ((t \div 86400) % 12))

\* _estimate_weather(lat, lon) called at time t
estimate_weather(c, t) == WeatherEstimate(c, MonthOf(t))

\* a faulty variant of NdviBase: the lean season above the winter season
NdviBaseLeanAboveWinter(month) == IF month \in {7, 8, 9, 10} THEN 580000 ELSE IF month \in {11, 12, 1, 2} THEN 280000 ELSE 420000

\* lines 563-568: the seasonal base
NdviBase(month) ==
    IF month \in {7, 8, 9, 10} THEN 580000
    ELSE IF month \in {11, 12, 1, 2} THEN 420000
    ELSE 280000

\* lines 572-598: the regional adjustment, the first zone that holds the point
NdviZone(c) ==
    LET In(lat1, lat2, lon1, lon2) ==
            /\ lat1 * 10000 <= c.lat /\ c.lat <= lat2 * 10000
            /\ lon1 * 10000 <= c.lon /\ c.lon <= lon2 * 10000
    IN IF In(24, 31, 75, 88) THEN 120000
       ELSE IF In(29, 33, 74, 78) THEN 150000
       ELSE IF In(24, 30, 68, 74) THEN -180000
       ELSE IF In(15, 20, 72, 74) THEN 50000
       ELSE IF In(15, 22, 74, 80) THEN -40000
       ELSE IF In(8, 14, 74, 78) THEN 160000
       ELSE IF In(8, 14, 78, 81) THEN 60000
       ELSE IF In(22, 28, 88, 97) THEN 180000
       ELSE IF In(22, 26, 76, 82) THEN 40000
       ELSE 0

\* _estimate_ndvi(lat, lon) called at time t
estimate_ndvi(c, t) ==
    LET base == NdviBase(MonthOf(t)) + NdviZone(c) + Variation(c).ndvi
        ndvi == Clamp(50, RoundTo(base, 1000), 850)
    IN [ndvi |-> ndvi,
        ndvi_min |-> IF ndvi - 120 > 0 THEN ndvi - 120 ELSE 0,
        ndvi_max |-> Min(1000, ndvi + 150),
        source |-> NDVI_EST, live |-> "False"]

\* the previous call, if it was of the same estimator at the same coordinate
Earlier(fn, c) ==
    IF call.fn = fn /\ call.at = c
    THEN [fn |-> fn, at |-> call.at, month |-> call.month, cut |-> call.cut,
          result |-> call.result]
    ELSE NoCall

\* _estimate_weather(lat, lon), called directly
EstimateWeatherCall(c) ==
    /\ call' = [fn |-> "_estimate_weather", at |-> c, month |-> MonthOf(now),
                cut |-> TempBeforeClamp(c, MonthOf(now)) \notin 50..480,
                result |-> estimate_weather(c, now),
                prev |-> Earlier("_estimate_weather", c)]
    /\ UNCHANGED <<now, env, scenario, nreq, probe, caches, crop_cache, born, soil_db, stats_cache,
                   engine, pc, coord, weather_task, bhuvan_task, agro_task,
                   sisindia_task, ctx>>

\* _estimate_ndvi(lat, lon), called directly
EstimateNdviCall(c) ==
    /\ call' = [fn |-> "_estimate_ndvi", at |-> c, month |-> MonthOf(now),
                cut |-> FALSE,
                result |-> estimate_ndvi(c, now),
                prev |-> Earlier("_estimate_ndvi", c)]
    /\ UNCHANGED <<now, env, scenario, nreq, probe, caches, crop_cache, born, soil_db, stats_cache,
                   engine, pc, coord, weather_task, bhuvan_task, agro_task,
                   sisindia_task, ctx>>

\* 15 days pass
EstimateTick ==
    /\ now < EstimateTicks * 1296000
    /\ now' = now + 1296000
    /\ UNCHANGED <<env, scenario, nreq, probe, caches, crop_cache, born, soil_db, stats_cache,
                   engine, pc, coord, weather_task, bhuvan_task, agro_task,
                   sisindia_task, ctx, call>>

EstimateInit ==
    /\ InitMain
    /\ scenario = [focus |-> "weather", others |-> "up"]
    /\ env = [WEATHER_API_KEY |-> FALSE, AGRO_SATELLITE_KEY |-> TRUE,
              GEMINI_API_KEY |-> TRUE]
    /\ soil_db = SOIL_DB
    /\ engine = NotLoaded

EstimateNext ==
    \/ \E c \in EstimateCoords : EstimateWeatherCall(c)
    \/ \E c \in EstimateCoords : EstimateNdviCall(c)
    \/ EstimateTick

EstimateSpec == EstimateInit /\ [][EstimateNext]_vars

(***************************************************************************)
(* The mandi snapshot: market_brain._fetch_mandi_data, _demo_mandi_data    *)
(***************************************************************************)
\* base_price of base_commodities, in the order of DemoCommodities
DemoBasePrices == <<2100, 2800, 5200, 4100, 280, 1500, 900, 1200>>

\* price_var = hash(f"{region}{commodity}") % 400 - 200; the hash of a
\* string differs from process to process, so each value of the range can
\* come out. The values studied: the ends and the middle of the range, and
\* those around -180, where the price of Sugarcane meets the floor of 100.
PriceVars == {-200, -199, -181, -180, -179, -100, -1, 0, 1, 100, 198, 199}

\* lines 238-254: the entry of commodity i
DemoItem(i, price_var) ==
    LET base == DemoBasePrices[i] + price_var
        modal_price == IF base > 100 THEN base ELSE 100
    IN [commodity |-> DemoCommodities[i], kind |-> "demo",
        modal_price |-> modal_price,
        \* int(modal_price * 0.95), int(modal_price * 1.05)
        price_min |-> (modal_price * 95) \div 100,
        price_max |-> (modal_price * 105) \div 100]

\* _demo_mandi_data(region, lat, lon) with its prices, price_var[i] being
\* the variation of commodity i
DemoSnapshot(price_var) == [i \in 1..Len(DemoCommodities) |-> DemoItem(i, price_var[i])]

MandiRegions ==
    { << <<"Sultanpur">>, <<"Uttar Pradesh">> >>,
      << <<"Dadri">>, <<"India">> >>,
      << <<"Unknown">> >> }
MandiCoords == {cS, cO}

\* _fetch_mandi_data(region, lat, lon), called directly; q1 and q2 are the
\* answers of data.gov.in to the first and the second query
FetchMandiCall(region, c, q1, q2) ==
    /\ q2 = "unused" <=> AgmRecords(q1) # <<>>
    /\ call' = [fn |-> "_fetch_mandi_data", region |-> region, at |-> c,
                answers |-> <<q1, q2>>,
                records |-> IF AgmRecords(q1) = <<>> THEN AgmRecords(q2)
                            ELSE AgmRecords(q1),
                result |-> fetch_mandi_data(region, c, q1, q2)]
    /\ UNCHANGED <<now, env, scenario, nreq, probe, caches, crop_cache, born, soil_db, stats_cache,
                   engine, pc, coord, weather_task, bhuvan_task, agro_task,
                   sisindia_task, ctx>>

\* _demo_mandi_data(region, lat, lon), called directly in a process whose
\* hash gives commodity i the variation v and the others none
DemoMandiCall(region, i, v) ==
    /\ call' = [fn |-> "_demo_mandi_data", region |-> region,
                result |-> DemoSnapshot([j \in 1..Len(DemoCommodities) |->
                                            IF j = i THEN v ELSE 0])]
    /\ UNCHANGED <<now, env, scenario, nreq, probe, caches, crop_cache, born, soil_db, stats_cache,
                   engine, pc, coord, weather_task, bhuvan_task, agro_task,
                   sisindia_task, ctx>>

MandiInit ==
    /\ InitMain
    /\ scenario = [focus |-> "market", others |-> "up"]
    /\ env = [WEATHER_API_KEY |-> TRUE, AGRO_SATELLITE_KEY |-> TRUE,
              GEMINI_API_KEY |-> FALSE]
    /\ soil_db = SOIL_DB
    /\ engine = NotLoaded

MandiNext ==
    \/ \E region \in MandiRegions, c \in MandiCoords,
          q1 \in AgmOutcomes \cup AgmOutcomesMore,
          q2 \in AgmOutcomes \cup AgmOutcomesMore \cup {"unused"} :
          FetchMandiCall(region, c, q1, q2)
    \/ \E i \in 1..Len(DemoCommodities), v \in PriceVars :
          DemoMandiCall(<< <<"Sultanpur">>, <<"Uttar Pradesh">> >>, i, v)

MandiSpec == MandiInit /\ [][MandiNext]_vars

(***************************************************************************)
(* The polygon vegetation-index lookup: ndvi_service.fetch_ndvi_stats      *)
(***************************************************************************)
STATS_CACHE_TTL == 600

\* what GET /image/search answers: a list of image objects; the exceptions
\* of the request (httpx.ReadError stands for the transport errors that are
\* neither a TimeoutException nor a ConnectError); the statuses; a 200 whose
\* body is no JSON, no list, an empty list, a list of strings; and a list
\* whose image has no "stats", no "ndvi" URL, a "dt" that is no number
SearchOutcomes ==
    {"images", "timeout", "connect_error", "read_error", "401", "400", "500",
     "not_json", "not_list", "empty", "item_not_dict", "no_stats", "no_url", "bad_dt"}

\* what GET stats.ndvi answers: an object with the statistics; the
\* exceptions; a non-200 status; a 200 whose body is no JSON, no object, an
\* object without "mean", with a "mean" that is no number
StatsOutcomes ==
    {"ok", "timeout", "connect_error", "read_error", "non200", "not_json",
     "not_dict", "no_mean", "mean_text"}

\* an exception leaving the function; status_code is 0 for an exception
\* that has none
Raised(exc, status_code) ==
    [raised |-> TRUE, exc |-> exc, status_code |-> status_code]

Returned(value) == [raised |-> FALSE, value |-> value]

\* _search_images(poly_id) given the answer s
search_images(s) ==
    CASE s \in {"timeout", "connect_error"} -> Raised("NDVIError", 502)
      [] s = "read_error" -> Raised("httpx.ReadError", 0)
      [] s = "401" -> Raised("NDVIError", 401)
      [] s = "400" -> Raised("NDVIError", 400)
      [] s = "500" -> Raised("NDVIError", 502)
      [] s = "not_json" -> Raised("json.JSONDecodeError", 0)
      [] s \in {"not_list", "empty"} -> Raised("NDVIError", 404)
      [] OTHER -> Returned(s)

\* _pick_latest_image(images): img.get on a string raises AttributeError
pick_latest_image(images) ==
    IF images = "item_not_dict" THEN Raised("AttributeError", 0) ELSE Returned(images)

\* the image holds a stats.ndvi URL, so that the second request is made
HasNdviUrl(image) == image \notin {"no_stats", "no_url"}

\* _fetch_ndvi_from_image(image) given the answer t
fetch_ndvi_from_image(image, t) ==
    CASE ~HasNdviUrl(image) -> Raised("NDVIError", 502)
      [] t \in {"timeout", "connect_error", "non200", "not_dict"} -> Raised("NDVIError", 502)
      [] t = "read_error" -> Raised("httpx.ReadError", 0)
      [] t = "not_json" -> Raised("json.JSONDecodeError", 0)
      [] OTHER -> Returned(t)

\* fetch_ndvi_stats(poly_id) after a cache miss, lines 68-106
fetch_ndvi_stats(poly_id, s, t) ==
    LET images == search_images(s)
        image == pick_latest_image(images.value)
        ndvi_data == fetch_ndvi_from_image(image.value, t)
    IN IF images.raised THEN images
       ELSE IF image.raised THEN image
       ELSE IF ndvi_data.raised THEN ndvi_data
       \* datetime.fromtimestamp(acq_ts, ...) at line 77
       ELSE IF image.value = "bad_dt" THEN Raised("TypeError", 0)
       ELSE IF ndvi_data.value = "no_mean" THEN Raised("NDVIError", 502)
       \* float(mean_val) at line 86
       ELSE IF ndvi_data.value = "mean_text" THEN Raised("ValueError", 0)
       ELSE Returned([poly_id |-> poly_id, cached |-> FALSE])

\* the requests one call makes
StatsRequests(s, t) ==
    IF s = "unused" THEN <<>>
    ELSE IF t = "unused" THEN <<"image/search">> ELSE <<"image/search", "stats.ndvi">>

\* cache_key = (poly_id, day_key), the day in UTC
StatsKey(poly_id, t) == <<poly_id, t \div 86400>>

StatsCacheHit(cache, k, t) ==
    /\ k \in DOMAIN cache
    /\ t - cache[k].ts < STATS_CACHE_TTL

Polygons == {"poly-a", "poly-b"}

\* fetch_ndvi_stats(poly_id); s and t are the answers to the two requests
FetchNdviStats(poly_id, s, t) ==
    LET key == StatsKey(poly_id, now)
        hit == StatsCacheHit(stats_cache, key, now)
        reached == /\ ~search_images(s).raised
                   /\ ~pick_latest_image(s).raised
                   /\ HasNdviUrl(s)
        result == IF hit
                  THEN Returned([stats_cache[key].data EXCEPT !.cached = TRUE])
                  ELSE fetch_ndvi_stats(poly_id, s, t)
    IN /\ s = "unused" <=> hit
       /\ t = "unused" <=> (hit \/ ~reached)
       /\ stats_cache' = IF hit \/ result.raised THEN stats_cache
                         ELSE Put(stats_cache, key, [ts |-> now, data |-> result.value])
       /\ call' = [fn |-> "fetch_ndvi_stats", poly_id |-> poly_id,
                   answers |-> <<s, t>>, requests |-> StatsRequests(s, t),
                   result |-> result, wrote |-> stats_cache' # stats_cache]
       /\ UNCHANGED <<now, env, scenario, nreq, probe, caches, crop_cache, born,
                      soil_db, engine, pc, coord, weather_task, bhuvan_task,
                      agro_task, sisindia_task, ctx>>

\* time passes: 300 s, then the TTL is reached
StatsTick ==
    /\ now < STATS_CACHE_TTL
    /\ now' = now + 300
    /\ UNCHANGED <<env, scenario, nreq, probe, caches, crop_cache, born, soil_db,
                   stats_cache, engine, pc, coord, weather_task, bhuvan_task,
                   agro_task, sisindia_task, ctx, call>>

StatsInit ==
    /\ InitMain
    /\ scenario = [focus |-> "ndvi", others |-> "up"]
    /\ env = [WEATHER_API_KEY |-> TRUE, AGRO_SATELLITE_KEY |-> TRUE,
              GEMINI_API_KEY |-> TRUE]
    /\ soil_db = SOIL_DB
    /\ engine = NotLoaded

StatsNext ==
    \/ \E poly_id \in Polygons, s \in SearchOutcomes \cup {"unused"},
          t \in StatsOutcomes \cup {"unused"} : FetchNdviStats(poly_id, s, t)
    \/ StatsTick

StatsSpec == StatsInit /\ [][StatsNext]_vars

(***************************************************************************)
(* api/routes.py: process_multi_query, with its _process_one tasks (one    *)
(* per location, each awaiting get_location_context in its own slot), and  *)
(* process_query for a query with fewer than two locations.                *)
(***************************************************************************)
\* the parameters of fusion.get_fused_data that a call can pass by keyword
\* (lines 18-24)
FusedDataParameters == {"lat", "lon", "live_weather", "region_name", "data_sources"}

\* the keywords of the call of routes.py lines 172-178 (and lines 92-99)
FusedDataKeywords == {"live_weather", "region_name", "data_sources", "live_context"}

\* get_fused_data(lat, lon, **keywords): a keyword that is no parameter is a
\* TypeError of the call, before the body runs
get_fused_data(c, keywords, live_weather, region_name, data_sources) ==
    IF ~(keywords \subseteq FusedDataParameters)
    THEN Raised("TypeError", 0)
    ELSE Returned([region |-> region_name, lat |-> c.lat, lon |-> c.lon,
                   live_weather |-> live_weather # NoData,
                   data_sources |-> data_sources])

\* what extract_locations found in the query: coordinates with their names
LocationName(c) == IF c = cS THEN << <<"Sultanpur">>, <<"Uttar Pradesh">> >>
                             ELSE << <<"Dadri">>, <<"Uttar Pradesh">> >>
LocationLists == {<< >>, <<cA>>, <<cA, cS>>, <<cS, cA2>>, <<cA, cA2>>}

\* datetime.now().month of the runs
RouteMonth == CHOOSE month \in EvictMonths : TRUE

\* the tasks of the call in flight: one per location, or the one
\* process_query of the fallback
RouteTasks == IF call.fn = "process_multi_query" THEN DOMAIN call.tasks ELSE {}
RouteCoord(r) == IF call.locations = << >> THEN cA ELSE call.locations[r]
RouteStarted == \A r \in RouteTasks : pc[r] # "idle"

\* process_multi_query(payload) up to its first await: extract_locations,
\* then process_query (at most one location) or the gather of one
\* _process_one per location
MultiQuery(locations) ==
    LET n == IF Len(locations) <= 1 THEN 1 ELSE Len(locations) IN
    /\ IF call.fn = "none" THEN TRUE ELSE call.st \in {"returned", "raised"}
    /\ \A r \in Slots : pc[r] = "idle"
    /\ nreq + n <= MaxRequests
    /\ call' = [fn |-> "process_multi_query", locations |-> locations,
                st |-> "gather", tasks |-> [r \in 1..n |-> [st |-> "run"]],
                result |-> << >>]
    /\ UNCHANGED <<now, env, scenario, nreq, probe, caches, crop_cache, born, soil_db,
                   stats_cache, engine, pc, coord, weather_task, bhuvan_task,
                   agro_task, sisindia_task, ctx>>

\* a task's first run: get_location_context up to its first await. The
\* tasks start in the order of the locations.
RouteStart(r) ==
    /\ r \in RouteTasks
    /\ call.st = "gather"
    /\ \A q \in RouteTasks : q < r => pc[q] # "idle"
    /\ Start(r, RouteCoord(r))

\* The rest of _process_one (lines 146-191), or of process_query (lines
\* 58-122), once get_location_context has returned or raised; out is the
\* crop advisor's answer, "unused" when it is not asked. Neither holds an
\* await whose completion another task could precede with a change of the
\* crop cache before get_fused_data is called.
ProcessOne(r, out) ==
    LET c == RouteCoord(r)
        single == Len(call.locations) <= 1
        region == IF single THEN ctx[r].region ELSE LocationName(c)
        key == CropKey(region, c, RouteMonth)
        hit == SoilIndex(crop_cache, key) # {}
        asked == env.GEMINI_API_KEY /\ ~hit
        insert == asked /\ out = "ok"
        fused == get_fused_data(c, FusedDataKeywords, ctx[r].weather, region,
                                ctx[r].data_sources)
        response == IF fused.raised THEN fused
                    ELSE Returned([fused_data |-> fused.value,
                                   ai_powered |-> FALSE])
    IN /\ r \in RouteTasks
       /\ call.st = "gather"
       /\ call.tasks[r].st = "run"
       /\ pc[r] \in {"done", "raised"}
       /\ IF pc[r] = "raised"
          THEN /\ out = "unused"
               /\ call' = [call EXCEPT !.tasks[r] =
                             [st |-> "end", ans |-> Raised("Exception", 0)]]
               /\ UNCHANGED <<crop_cache, born>>
          ELSE /\ out = "unused" <=> ~asked
               /\ crop_cache' = IF insert
                                THEN CropCacheInsert(crop_cache, key, Validated(region))
                                ELSE crop_cache
               /\ born' = IF insert
                          THEN [born EXCEPT !.crop =
                                  BornAfterWrite(@, crop_cache, CROP_CACHE_MAX, key)]
                          ELSE born
               /\ call' = [call EXCEPT !.tasks[r] = [st |-> "end", ans |-> response]]
       /\ UNCHANGED <<now, env, scenario, nreq, probe, caches, soil_db, stats_cache,
                      engine, pc, coord, weather_task, bhuvan_task, agro_task,
                      sisindia_task, ctx>>

\* the answers of the tasks in the order of the locations
RouteAnswers == [r \in RouteTasks |-> call.tasks[r].ans]

\* Lines 136-138: the exception of process_query leaves the handler, its
\* response is returned in a list. Lines 193-200: gather with
\* return_exceptions=True, then the list without the exceptions.
MultiReturn ==
    /\ call.fn = "process_multi_query"
    /\ call.st = "gather"
    /\ \A r \in RouteTasks : call.tasks[r].st = "end"
    /\ call' = IF Len(call.locations) <= 1 /\ RouteAnswers[1].raised
               THEN [call EXCEPT !.st = "raised"]
               ELSE [call EXCEPT !.st = "returned",
                                 !.result = SelectSeq(RouteAnswers,
                                                      LAMBDA a : ~a.raised)]
    /\ UNCHANGED <<now, env, scenario, nreq, probe, caches, crop_cache, born, soil_db,
                   stats_cache, engine, pc, coord, weather_task, bhuvan_task,
                   agro_task, sisindia_task, ctx>>

\* the handler has answered: its slots take the next query
RouteRelease(r) ==
    /\ call.fn = "process_multi_query"
    /\ call.st \in {"returned", "raised"}
    /\ Return(r)

RouteInit == Init /\ scenario = [focus |-> "soil", others |-> "up"]

RouteNext ==
    \/ \E locations \in LocationLists : MultiQuery(locations)
    \/ \E r \in Slots : RouteStart(r)
    \/ \E r \in Slots : RouteStarted /\ OpenMeteoResponse(r, "ok")
    \/ \E r \in Slots : RouteStarted /\ BhuvanResponse(r, "code_known")
    \/ \E r \in Slots : RouteStarted /\ ModisResponse(r, "ok")
    \/ \E r \in Slots, out \in SoilOutcomes : RouteStarted /\ DistrictResponse(r, out)
    \/ \E r \in Slots, out \in SoilOutcomes : RouteStarted /\ GriddedResponse(r, out)
    \/ \E r \in Slots : \E a \in JoinInputs(r) : Join(r, a[1], a[2], a[3], a[4])
    \/ \E r \in Slots, out \in CropAdvisorOutcomes \cup {"unused"} : ProcessOne(r, out)
    \/ MultiReturn
    \/ \E r \in Slots : RouteRelease(r)

RouteSpec == RouteInit /\ [][RouteNext]_vars

(***************************************************************************)
(* Properties.                                                             *)
(***************************************************************************)
\* the last entry of a non-empty log
Last(log) == log[Len(log)]

\* every live provider of the request in slot r failed
AllLiveFailed(r) ==
    /\ weather_task[r].log # <<>> /\ Last(weather_task[r].log).tier = "Estimate"
    /\ ~bhuvan_task[r].log[1].ok
    /\ agro_task[r].log # <<>> /\ Last(agro_task[r].log).tier = "Estimate"
    /\ sisindia_task[r].log # <<>> /\ sisindia_task[r].res = NoData
    /\ ctx[r].market_brain.mandi = "Agmarknet (Demo)"
    /\ ctx[r].market_brain.source = "Fallback"

\* C1: get_location_context never raises, whatever the providers answer: it
\* returns a context with the seven fields, and when every live provider
\* failed every provenance entry is a fallback / estimate / default label.
C1_NeverRaises ==
    \A r \in Slots :
        /\ pc[r] # "raised"
        /\ pc[r] = "done" =>
             /\ {"weather", "soil", "land_classification", "satellite", "market_brain",
                 "region", "data_sources"} \subseteq DOMAIN ctx[r]
             /\ AllLiveFailed(r) =>
                  ctx[r].data_sources =
                    <<"Open-Meteo (Cached Fallback)", "Land Use (Default)",
                      "NDVI (Estimate)", "Soil Database (Offline)",
                      "Market Brain (Fallback)">>

\* C2: the provenance list of a returned context has exactly five entries,
\* one per domain in the order weather, land classification, vegetation
\* index, soil, market, whatever produced the payloads.
C2_FiveProvenanceEntries ==
    \A r \in Slots :
        pc[r] = "done" =>
            LET ds == ctx[r].data_sources IN
            /\ Len(ds) = 5
            /\ ds[1] \in {"Open-Meteo (Live)", "Open-Meteo (Cached Fallback)"}
            /\ ds[2] \in {"ISRO Bhuvan LULC", "Land Use (Default)"}
            /\ ds[3] \in {NDVI_MODIS, NDVI_AGRO, "NDVI (Estimate)"}
            /\ ds[4] \in {"SISIndia API (Live)", "Soil Database (Offline)"}
            /\ ds[5] \in {"Market Brain (Gemini AI)", "Market Brain (Fallback)",
                          "Market Brain (Analysis)"}

\* a context returned from an estimated weather, a vegetation index served
\* from the cache, a live soil answer and a heuristic market brain
C2_MixedContextReturned ==
    \E r \in Slots :
        /\ pc[r] = "done"
        /\ ctx[r].weather.tier = "Estimate"
        /\ agro_task[r].log = <<>>
        /\ ~ctx[r].soil_offline
        /\ ctx[r].market_brain.source = "Fallback"
        /\ Len(ctx[r].data_sources) = 5

\* C3: for every request, cache hits included, the vegetation-index
\* provenance entry names a live source exactly when the returned satellite
\* payload was produced by MODIS or AgroMonitoring, and is "NDVI (Estimate)"
\* only when the payload came from the estimator.
C3_NdviProvenanceMatchesTier ==
    \A r \in Slots :
        pc[r] = "done" =>
            /\ ctx[r].data_sources[3] \in {NDVI_MODIS, NDVI_AGRO}
                 <=> ctx[r].satellite.source \in {NDVI_MODIS, NDVI_AGRO}
            /\ ctx[r].data_sources[3] = "NDVI (Estimate)"
                 => ctx[r].satellite.source = NDVI_EST

\* the tiers of each resolver in priority order, as configured
C4_WeatherTiers ==
    <<"OpenMeteo">> \o (IF env.WEATHER_API_KEY THEN <<"WeatherAPI">> ELSE <<>>)
                    \o <<"Estimate">>
C4_NdviTiers ==
    <<"MODIS">> \o (IF env.AGRO_SATELLITE_KEY THEN <<"AgroMonitoring">> ELSE <<>>)
                \o <<"Estimate">>
C4_SoilTiers == <<"District", "Gridded">>

\* the exchanges of log are the first tiers of tiers, in order, and every
\* one but the last failed
C4_InOrder(log, tiers) ==
    /\ Len(log) <= Len(tiers)
    /\ \A i \in 1..Len(log) : /\ log[i].tier = tiers[i]
                              /\ i < Len(log) => ~log[i].ok

\* the request in flight is for the tier after those of log, which all failed
C4_Pending(log, tiers, tier) ==
    /\ C4_InOrder(log, tiers)
    /\ Len(log) < Len(tiers)
    /\ tiers[Len(log) + 1] = tier
    /\ \A i \in 1..Len(log) : ~log[i].ok

\* the resolution ended at its first success (an empty log is a cache hit)
C4_Ended(log, tiers) ==
    /\ C4_InOrder(log, tiers)
    /\ log # <<>> => Last(log).ok

\* C4: in every domain resolver the tiers are attempted strictly in
\* priority order: a tier is invoked only after every higher-priority tier
\* of that resolution has failed, and the first success ends the resolution.
C4_TiersInPriorityOrder ==
    \A r \in Slots :
        /\ weather_task[r].st = "pendA" =>
             C4_Pending(weather_task[r].log, C4_WeatherTiers, "OpenMeteo")
        /\ weather_task[r].st = "pendB" =>
             C4_Pending(weather_task[r].log, C4_WeatherTiers, "WeatherAPI")
        /\ weather_task[r].st = "done" =>
             /\ C4_Ended(weather_task[r].log, C4_WeatherTiers)
             /\ weather_task[r].log # <<>> =>
                  weather_task[r].res.tier = Last(weather_task[r].log).tier
        /\ agro_task[r].st = "pendModis" =>
             C4_Pending(agro_task[r].log, C4_NdviTiers, "MODIS")
        /\ agro_task[r].st \in {"pendAgroList", "pendAgroCreate", "pendAgroHistory"} =>
             C4_Pending(agro_task[r].log, C4_NdviTiers, "AgroMonitoring")
        /\ agro_task[r].st = "done" =>
             /\ C4_Ended(agro_task[r].log, C4_NdviTiers)
             /\ agro_task[r].log # <<>> =>
                  (Last(agro_task[r].log).tier = "Estimate"
                     <=> ndvi_cache[CacheKey(coord[r])].data.source = NDVI_EST)
        /\ sisindia_task[r].st = "pendDistrict" =>
             C4_Pending(sisindia_task[r].log, C4_SoilTiers, "District")
        /\ sisindia_task[r].st = "pendGridded" =>
             C4_Pending(sisindia_task[r].log, C4_SoilTiers, "Gridded")
        /\ sisindia_task[r].st \in {"done", "raised"} =>
             /\ C4_InOrder(sisindia_task[r].log, C4_SoilTiers)
             /\ sisindia_task[r].res = NoData /\ sisindia_task[r].st = "done" =>
                  /\ Len(sisindia_task[r].log) = Len(C4_SoilTiers)
                  /\ ~Last(sisindia_task[r].log).ok
             /\ sisindia_task[r].log # <<>> /\ sisindia_task[r].res # NoData =>
                  Last(sisindia_task[r].log).ok
        /\ pc[r] = "done" => (ctx[r].soil_offline <=> sisindia_task[r].res = NoData)

\* both live weather tiers and both live vegetation-index tiers failed in
\* turn and the estimators answered
C4_AllTiersWalked ==
    \E r \in Slots :
        /\ weather_task[r].st = "done" /\ Len(weather_task[r].log) = 3
        /\ agro_task[r].st = "done" /\ Len(agro_task[r].log) = 3
        /\ sisindia_task[r].st = "done" /\ Len(sisindia_task[r].log) = 2

\* no two entries of a sequence are equal
NoRepeat(seq) == \A i, j \in 1..Len(seq) : i # j => seq[i] # seq[j]

\* C5: within one resolution no provider request is issued twice with the
\* same parameters, the market resolver for a region label without a
\* district included.
C5_NoRequestTwice ==
    \A r \in Slots :
        pc[r] = "done" =>
            /\ NoRepeat(ctx[r].market_calls)
            /\ NoRepeat([i \in 1..Len(weather_task[r].log) |-> weather_task[r].log[i].tier])
            /\ NoRepeat([i \in 1..Len(agro_task[r].log) |-> agro_task[r].log[i].tier])
            /\ NoRepeat([i \in 1..Len(sisindia_task[r].log) |->
                            sisindia_task[r].log[i].tier])

\* C6: a request never gets an estimator result from a cache in place of a
\* new attempt of the live tiers: an estimated weather or vegetation index
\* was computed by this request after its live tiers failed.
C6_EstimateNotServedFromCache ==
    \A r \in Slots :
        /\ (weather_task[r].st = "done" /\ weather_task[r].res.tier = "Estimate") =>
             (weather_task[r].log # <<>> /\ weather_task[r].log[1].tier = "OpenMeteo")
        /\ (agro_task[r].st = "done"
              /\ ndvi_cache[CacheKey(coord[r])].data.source = NDVI_EST) =>
             (agro_task[r].log # <<>> /\ agro_task[r].log[1].tier = "MODIS")

\* C7: a 200 response without the required payload is a tier failure: no
\* result marked live is built from default values.
C7_NoLiveResultFromDefaults ==
    \A r \in Slots :
        /\ weather_task[r].st = "done" =>
             ~(weather_task[r].res.live = "True" /\ weather_task[r].res.body = "defaults")
        /\ agro_task[r].st = "done" =>
             ~(ndvi_cache[CacheKey(coord[r])].data.source \in {NDVI_MODIS, NDVI_AGRO}
                 /\ ndvi_cache[CacheKey(coord[r])].data.body = "defaults")
        /\ bhuvan_task[r].st = "done" =>
             ~(bhuvan_task[r].res.suffix = "(ISRO Bhuvan)"
                 /\ bhuvan_task[r].res.label = "Mixed Land - Code ")

\* a task of slot r for key k finishes in this step (the step that writes k)
WritesKey(task, r, k) ==
    /\ task[r].st # "done"
    /\ task'[r].st = "done"
    /\ CacheKey(coord[r]) = k

\* C8: cache entries are immutable once written: the payload held under a
\* key of the weather, vegetation-index or soil cache changes only in a
\* step that writes that key again.
C8_CachedPayloadImmutable ==
    [][ /\ \A k \in DOMAIN weather_cache \cap DOMAIN weather_cache' :
             weather_cache'[k].data # weather_cache[k].data =>
               \E r \in Slots : WritesKey(weather_task, r, k)
        /\ \A k \in DOMAIN ndvi_cache \cap DOMAIN ndvi_cache' :
             ndvi_cache'[k].data # ndvi_cache[k].data =>
               \E r \in Slots : WritesKey(agro_task, r, k)
        /\ \A k \in SoilKeys(soil_cache) \cap SoilKeys(soil_cache') :
             SoilGetCached(soil_cache', k) # SoilGetCached(soil_cache, k) =>
               \E r \in Slots : WritesKey(sisindia_task, r, k)
      ]_vars

\* C9: a second resolution of a rounded coordinate that interleaved with a
\* first one and missed the cache as well only writes the key again: the
\* step that writes a key already cached removes no key from the cache,
\* also when the soil cache is at capacity.
C9_SecondWriteKeepsOtherKeys ==
    [][ \A r \in Slots :
          (/\ sisindia_task[r].st \in {"pendDistrict", "pendGridded"}
           /\ sisindia_task'[r].st = "done"
           /\ sisindia_task'[r].res # NoData
           /\ CacheKey(coord[r]) \in SoilKeys(soil_cache))
          => /\ SoilKeys(soil_cache) \subseteq SoilKeys(soil_cache')
             /\ Cardinality(SoilIndex(soil_cache', CacheKey(coord[r]))) = 1
      ]_vars

\* the time to live of each cache; the soil cache has none
C10_Fresh(name, since, t) ==
    CASE name = "weather" -> t - since < WEATHER_CACHE_TTL
      [] name = "ndvi" -> t - since < NDVI_CACHE_TTL
      [] name = "market" -> t - since < CACHE_TTL_HOURS * 3600
      [] OTHER -> TRUE

\* C10: cache round trip: a read of key k that directly follows a write of
\* payload v under k, or a read that returned v, returns a payload equal to
\* v as long as the TTL has not elapsed since the write.
C10_RoundTrip ==
    [][ (/\ probe'.op = "get"
         /\ probe.op \in {"put", "get"}
         /\ probe.value # NoData
         /\ probe'.cache = probe.cache
         /\ probe'.key = probe.key
         /\ C10_Fresh(probe.cache, probe.since, now'))
        => probe'.value = probe.value
      ]_vars

\* a read of a key that repeats a read of that key returned the payload,
\* some time after the write
C10_ReadTwice ==
    /\ probe.op = "get"
    /\ probe.prev = "get"
    /\ probe.value # NoData
    /\ probe.cache = "market"
    /\ now > probe.since

\* a step that is a write of a new key into the full cache
C11_FullInsert(fn) == call'.fn = fn /\ call'.new /\ call'.full

\* what such a step does to a dict with the history hist: the one key it
\* removes is the earliest-inserted one, the one key it adds is the new one
C11_RemovesEarliest(cache, after, hist) ==
    /\ SoilKeys(cache) \ SoilKeys(after) = {hist[1]}
    /\ SoilKeys(after) \ SoilKeys(cache) = {call'.key}
    /\ Len(after) = Len(cache)

C12_Read(name) == probe'.op = "get" /\ probe'.cache = name /\ now' = now

\* a read of key k, held since the time since, with the time to live ttl:
\* a hit exactly when the entry is younger than ttl
C12_HitIffYoung(held, since, ttl) ==
    held => (probe'.value # NoData <=> now - since < ttl)

\* C12: the TTL is enforced on read only: in the weather, vegetation-index
\* and market caches a read of an entry whose age has reached the TTL is a
\* miss and leaves the entry in the cache (the read deletes nothing), and a
\* read of a younger entry is a hit.
C12_ExpiredReadKeepsEntry ==
    [][ /\ C12_Read("weather") =>
             /\ weather_cache' = weather_cache
             /\ C12_HitIffYoung(probe'.key \in DOMAIN weather_cache,
                                weather_cache[probe'.key].ts, WEATHER_CACHE_TTL)
        /\ C12_Read("ndvi") =>
             /\ ndvi_cache' = ndvi_cache
             /\ C12_HitIffYoung(probe'.key \in DOMAIN ndvi_cache,
                                ndvi_cache[probe'.key].ts, NDVI_CACHE_TTL)
        /\ C12_Read("market") =>
             /\ market_cache' = market_cache
             /\ C12_HitIffYoung(probe'.key \in DOMAIN market_cache,
                                market_cache[probe'.key].timestamp,
                                CACHE_TTL_HOURS * 3600)
      ]_vars

\* the last call was a direct call of the region matcher
C13_MatcherCalled == call.fn \in {"_lookup_soil", "_get_region_name"}

\* the point lies inside the box of the region, bounds inclusive
C13_Inside(region, c) ==
    /\ c.lat >= region.lat_range[1] /\ c.lat <= region.lat_range[2]
    /\ c.lon >= region.lon_range[1] /\ c.lon <= region.lon_range[2]

\* region i is the first declared region whose box contains the point
C13_FirstContaining(i, c) ==
    /\ C13_Inside(soil_db.regions[i], c)
    /\ \A j \in 1..(i - 1) : ~C13_Inside(soil_db.regions[j], c)

\* C13: for every coordinate inside (bounds inclusive) at least one
\* region's bounding box, _lookup_soil returns the soil profile of the
\* first-declared region whose box contains it, without a nearest-match
\* note, and _get_region_name returns that region's "city, state" label.
C13_FirstDeclaredBoxWins ==
    C13_MatcherCalled =>
        \A i \in 1..Len(soil_db.regions) :
            C13_FirstContaining(i, call.at) =>
                /\ call.fn = "_lookup_soil" =>
                     /\ call.result.region = soil_db.regions[i].city
                     /\ call.result.soil_type = soil_db.regions[i].soil_type
                     /\ call.result.note = "none"
                /\ call.fn = "_get_region_name" =>
                     call.result = << <<soil_db.regions[i].city>>,
                                      <<soil_db.regions[i].state>> >>

\* a point in the overlap of two boxes got the label of the box declared
\* first, in a table that declares the Noida box before the Greater Noida one
C13_OverlapFirstDeclared ==
    /\ call.fn = "_get_region_name"
    /\ call.at = cA
    /\ Len(soil_db.regions) >= 2
    /\ C13_Inside(soil_db.regions[1], cA)
    /\ \E j \in 2..Len(soil_db.regions) : C13_Inside(soil_db.regions[j], cA)
    /\ soil_db.regions[1].city = "Noida"
    /\ call.result = << <<"Noida">>, <<"Uttar Pradesh">> >>

\* the distance from the point to the centre of the region's box, in metres
C14_Dist(region, c) ==
    haversine(c.lat, c.lon, region.lat_range[1] + region.lat_range[2],
              region.lon_range[1] + region.lon_range[2])

\* C14: for every coordinate outside all bounding boxes, _lookup_soil
\* returns a region's profile only if that region has the minimum centre
\* distance and that distance is strictly below 150 km; when the nearest
\* centre is 150 km away or more, or no region is declared, it returns the
\* generic default profile.
C14_NearestOnlyWithinLimit ==
    (/\ call.fn = "_lookup_soil"
     /\ \A i \in 1..Len(soil_db.regions) : ~C13_Inside(soil_db.regions[i], call.at))
    => LET n == Len(soil_db.regions)
           d(i) == C14_Dist(soil_db.regions[i], call.at)
       IN /\ call.result.region # "default" =>
               \E i \in 1..n :
                   /\ call.result.region = soil_db.regions[i].city
                   /\ call.result.soil_type = soil_db.regions[i].soil_type
                   /\ d(i) < 150 * 1000
                   /\ \A j \in 1..n : d(i) <= d(j)
          /\ (\A i \in 1..n : d(i) >= 150 * 1000) =>
               /\ call.result.region = "default"
               /\ call.result.soil_type = soil_db.default.soil_type
               /\ call.result.note = "none"

\* a point 149.997 km from the nearest centre got that region's profile,
\* from a table that declares a farther region first
C14_JustWithinLimit ==
    /\ call.fn = "_lookup_soil"
    /\ call.at = cJ
    /\ Len(soil_db.regions) >= 2
    /\ soil_db.regions[1].city # "Lucknow"
    /\ call.result.region = "Lucknow"
    /\ call.result.note = "Nearest match"

\* C15: in every run of get_location_context the market resolver is
\* invoked only after region resolution has finished (by exact match,
\* reverse geocoding, nearest match or generic label): the region string
\* it was given, which its result carries, is the region returned in the
\* context, and that region is what region resolution yields for the
\* coordinate.
C15_MarketGetsResolvedRegion ==
    \A r \in Slots :
        pc[r] = "done" =>
            /\ \E geo \in GeoOutcomes : ctx[r].region = get_region_name(coord[r], geo)
            /\ ctx[r].market_brain.region = ctx[r].region

\* a context whose region came from reverse geocoding and whose market
\* brain was computed by this request from AGMARKNET answers
C15_GeocodedRegionToMarket ==
    \E r \in Slots :
        /\ pc[r] = "done"
        /\ ctx[r].geo_calls # <<>>
        /\ ctx[r].market_calls # <<>>
        /\ ctx[r].region = << <<"Dadri">>, <<"Uttar Pradesh">> >>
        /\ ctx[r].market_brain.region = ctx[r].region
        /\ ctx[r].market_brain.mandi = "AGMARKNET (Live)"

\* the four resolver tasks of slot r
C16_Tasks(r) == {weather_task[r], bhuvan_task[r], agro_task[r], sisindia_task[r]}

\* the step of slot r that invokes the market resolver can be taken
C16_MarketCanStart(r) ==
    ENABLED (\E a \in JoinInputs(r) : Join(r, a[1], a[2], a[3], a[4]))

\* the four resolvers are all started before any of them is awaited, and
\* the context is built only after all of them have completed
C16_StartedTogetherJoinedAtEnd ==
    \A r \in MainSlots :
        /\ pc[r] = "gather" => \A t \in C16_Tasks(r) : t.st # "idle"
        /\ pc[r] = "done" => \A t \in C16_Tasks(r) : t.st = "done"

\* C16: the region-before-market dependency is the only ordering
\* constraint between domains: the weather, land-classification,
\* vegetation-index and soil resolvers are all started before any of them
\* is awaited, the context is built only after all of them have completed,
\* and the start of the market resolver does not wait for the completion of
\* any of the four: it can start in every state of a request in flight.
C16_MarketDoesNotWaitForTasks ==
    /\ C16_StartedTogetherJoinedAtEnd
    /\ \A r \in MainSlots : pc[r] = "gather" => C16_MarketCanStart(r)

\* C17: the context returned by get_location_context never contains an
\* internal bookkeeping flag: the weather and satellite payloads have no
\* "_live" key and the soil payload has no "_source" key, whichever tier or
\* cache produced them.
C17_NoInternalFlags ==
    \A r \in Slots :
        pc[r] = "done" =>
            /\ ctx[r].weather.live = "absent"
            /\ ctx[r].satellite.live = "absent"
            /\ ctx[r].soil.src = "absent"

\* a context whose weather, vegetation index and live soil all came from
\* the caches, the cached weather carrying its "_live" flag
C17_AllFromCaches ==
    \E r \in Slots :
        /\ pc[r] = "done"
        /\ weather_task[r].log = <<>>
        /\ weather_task[r].res.live = "True"
        /\ agro_task[r].log = <<>>
        /\ sisindia_task[r].log = <<>>
        /\ ~ctx[r].soil_offline
        /\ ctx[r].weather.live = "absent"

\* the sum of the confidences of a result, in hundredths
RECURSIVE C18_Sum(_)
C18_Sum(results) ==
    IF results = <<>> THEN 0 ELSE Head(results).confidence + C18_Sum(Tail(results))

\* the last call was a prediction of a loaded engine whose result does not
\* hang on how a halfway quotient is rounded
C18_Predicted == call.fn = "predict" /\ engine.loaded /\ ~call.tie

\* C18: for every loaded dataset, query and top_k, each confidence returned
\* by CropEngine.predict is in [0, 1] and the confidences of the returned
\* list, rounded to 2 decimals, sum to at most 1.0.
C18_ConfidencesSumToAtMostOne ==
    C18_Predicted =>
        /\ \A i \in 1..Len(call.results) :
               call.results[i].confidence >= 0 /\ call.results[i].confidence <= 100
        /\ C18_Sum(call.results) <= 100

\* the labels returned by the last prediction, with their accumulated weights
C19_Returned == SubSeq(call.scores, 1, Len(call.results))

\* C19: the confidence of each returned label equals its accumulated vote
\* weight divided by the sum of the weights of the returned top_k labels
\* only, not by the sum over all labels found among the neighbours.
C19_NormalisedOverReturned ==
    C18_Predicted =>
        \A i \in 1..Len(call.results) :
            \/ RoundingTie(call.scores[i].score, SumScores(C19_Returned))
            \/ call.results[i].confidence
                 = Confidence(call.scores[i].score, SumScores(C19_Returned))

\* the last query equals reference row i, and every row at distance 0 of it
\* carries the label of row i
C20_ExactMatch(i) ==
    /\ engine.rows[i].x = call.query
    /\ \A j \in 1..Len(engine.rows) :
           engine.rows[j].x = call.query => engine.rows[j].label = engine.rows[i].label

\* C20: for a query whose features equal those of a reference row, where no
\* row with a different label lies at distance 0, that row's label is first
\* in the result of CropEngine.predict and its confidence is above 0.5.
C20_ExactMatchRanksFirst ==
    C18_Predicted =>
        \A i \in 1..Len(engine.rows) :
            C20_ExactMatch(i) =>
                /\ call.results[1].crop = engine.rows[i].label
                /\ call.results[1].confidence > 50

\* the last call was a prediction of an engine without reference rows: the
\* load failed, or the file held no record
C21_NoReference == call.fn = "predict" /\ (~engine.loaded \/ engine.rows = <<>>)

\* C21: when the reference dataset is empty or failed to load,
\* CropEngine.predict returns for every query and every top_k exactly one
\* entry, the fixed fallback label with confidence 0.5.
C21_FallbackWhenNoDataset ==
    C21_NoReference => call.results = << [crop |-> "wheat", confidence |-> 50] >>

\* the part of C21 that the code keeps: an engine whose load failed answers
\* with the single fallback entry
C21_FallbackWhenLoadFailed ==
    (call.fn = "predict" /\ ~engine.loaded)
        => call.results = << [crop |-> "wheat", confidence |-> 50] >>

\* the last two calls were estimates of the weather at one coordinate
C22_TwoEstimates ==
    /\ call.fn = "_estimate_weather"
    /\ call.prev # NoCall
    /\ call.prev.at = call.at

C23_Pair(m1, m2) ==
    /\ C22_TwoEstimates
    /\ call.at.lat > 0
    /\ call.prev.month \in m1 /\ call.month \in m2
    /\ ~call.prev.cut /\ ~call.cut

\* C23: for a Northern-Hemisphere coordinate the estimated temperature in
\* a winter month (December to February) is strictly lower than that of the
\* same coordinate in a pre-monsoon month (March to May), provided neither
\* estimate is cut by the [5, 48] clamp.
C23_WinterBelowPreMonsoon ==
    /\ C23_Pair({12, 1, 2}, {3, 4, 5}) => call.prev.result.temp < call.result.temp
    /\ C23_Pair({3, 4, 5}, {12, 1, 2}) => call.result.temp < call.prev.result.temp

\* (28.47N, 77.50E) estimated in February and then in May
C23_FebruaryThenMay ==
    /\ C23_Pair({2}, {5})
    /\ call.at = cA
    /\ call.prev.result.temp = 130 /\ call.result.temp = 250

\* the seasons of _estimate_ndvi: 3 for the monsoon months (July to
\* October), 2 for the winter months (November to February), 1 for the rest
C29_Season(month) ==
    IF month \in {7, 8, 9, 10} THEN 3 ELSE IF month \in {11, 12, 1, 2} THEN 2 ELSE 1

\* the last two calls estimated the vegetation index of one coordinate
C29_TwoEstimates ==
    /\ call.fn = "_estimate_ndvi"
    /\ call.prev # NoCall
    /\ call.prev.at = call.at

\* C29: for every coordinate and month the vegetation-index estimator
\* returns ndvi in [0.05, 0.85] with ndvi_min <= ndvi <= ndvi_max, marked
\* not live, and for a fixed coordinate the monsoon-month estimate is not
\* lower than the winter-month estimate, which is not lower than the
\* summer-month estimate.
C29_NdviEstimateInRange ==
    call.fn = "_estimate_ndvi" =>
        /\ call.result.ndvi >= 50 /\ call.result.ndvi <= 850
        /\ call.result.ndvi_min <= call.result.ndvi
        /\ call.result.ndvi <= call.result.ndvi_max
        /\ call.result.live = "False"
        /\ C29_TwoEstimates =>
              /\ C29_Season(call.month) >= C29_Season(call.prev.month)
                    => call.result.ndvi >= call.prev.result.ndvi
              /\ C29_Season(call.prev.month) >= C29_Season(call.month)
                    => call.prev.result.ndvi >= call.result.ndvi

\* the arid-zone point estimated in winter and then in the lean season,
\* where ndvi - 0.12 falls below 0
C29_AridLeanAfterWinter ==
    /\ C29_TwoEstimates
    /\ call.at = cR
    /\ C29_Season(call.prev.month) = 2 /\ C29_Season(call.month) = 1
    /\ call.result.ndvi = 114 /\ call.result.ndvi_min = 0

\* 0.95 x modal_price rounded to the nearest whole number
C24_Round95(modal_price) == (modal_price * 95 + 50) \div 100

\* the data.gov.in endpoint was not reachable during the last call of
\* _fetch_mandi_data
C24_Unreachable ==
    /\ call.fn = "_fetch_mandi_data"
    /\ call.answers = <<"fail", "fail">>

\* C24: when the live commodity endpoint is unreachable the market resolver
\* returns exactly 8 demo commodities, and each of them satisfies
\* price_min <= modal_price <= price_max and
\* price_min = round(0.95 x modal_price), for every region string and every
\* modal price the demo generator can produce.
C24_DemoSnapshotPrices ==
    /\ C24_Unreachable =>
          /\ Len(call.result.snapshot) = 8
          /\ \A i \in 1..8 : call.result.snapshot[i].kind = "demo"
    /\ call.fn = "_demo_mandi_data" =>
          /\ Len(call.result) = 8
          /\ \A i \in 1..8 :
                LET item == call.result[i] IN
                /\ item.price_min <= item.modal_price
                /\ item.modal_price <= item.price_max
                /\ (item.modal_price * 95) % 100 # 50
                      => item.price_min = C24_Round95(item.modal_price)

\* the parts of C24 that the code keeps: eight demo entries, each price
\* between price_min and price_max
C24_DemoSnapshotShape ==
    /\ C24_Unreachable =>
          /\ Len(call.result.snapshot) = 8
          /\ \A i \in 1..8 : call.result.snapshot[i].kind = "demo"
    /\ call.fn = "_demo_mandi_data" =>
          /\ Len(call.result) = 8
          /\ \A i \in 1..8 :
                /\ call.result[i].price_min <= call.result[i].modal_price
                /\ call.result[i].modal_price <= call.result[i].price_max

\* the last call of _fetch_mandi_data got records and did not raise
C25_FromRecords ==
    /\ call.fn = "_fetch_mandi_data"
    /\ call.records # <<>>
    /\ ~call.result.raised

\* record i of the response is the first of its commodity
C25_FirstOccurrence(i) ==
    \A j \in 1..(i - 1) : call.records[j].commodity # call.records[i].commodity

\* entry k of the snapshot was built from the first record of its commodity
C25_FromFirst(k) ==
    \E i \in 1..Len(call.records) :
        /\ C25_FirstOccurrence(i)
        /\ call.records[i].commodity = call.result.snapshot[k].commodity
        /\ call.records[i].modal_price \div 100 = call.result.snapshot[k].modal_price

\* a snapshot built from live records: one entry per commodity, from its
\* first record, and no more than 20 entries
C25_Deduplicated ==
    LET snapshot == call.result.snapshot IN
    (C25_FromRecords /\ snapshot[1].kind = "live") =>
        /\ \A k, l \in 1..Len(snapshot) :
               snapshot[k].commodity = snapshot[l].commodity => k = l
        /\ \A k \in 1..Len(snapshot) : C25_FromFirst(k)
        /\ Len(snapshot) <= 20

\* C25: a market snapshot built from live records contains at most one
\* record per commodity, that record being the commodity's first occurrence
\* in the provider response, contains no record whose modal price is zero
\* or negative, and has at most 20 records; if no record survives, the demo
\* snapshot is returned so that the snapshot is never empty.
C25_LiveSnapshot ==
    /\ C25_Deduplicated
    /\ C25_FromRecords =>
          /\ call.result.snapshot # <<>>
          /\ \A k \in 1..Len(call.result.snapshot) :
                call.result.snapshot[k].kind = "live"
                    => call.result.snapshot[k].modal_price > 0

\* the parts of C25 that the code keeps
C25_LiveSnapshotButPrices ==
    /\ C25_Deduplicated
    /\ C25_FromRecords => call.result.snapshot # <<>>

\* the response held 22 commodities: the snapshot is cut to 20
C25_CutToTwenty ==
    /\ C25_FromRecords
    /\ Len(call.records) > 20
    /\ Len(call.result.snapshot) = 20

\* the last call of fetch_ndvi_stats failed
C26_Failed == call.fn = "fetch_ndvi_stats" /\ call.result.raised

\* C26: fetch_ndvi_stats fails only with the typed NDVIError carrying a
\* status code and a message: every failure of the image search or of the
\* statistics fetch surfaces as NDVIError and no other exception type, and
\* a failed lookup writes nothing to the cache.
C26_OnlyNDVIError ==
    C26_Failed =>
        /\ call.result.exc = "NDVIError"
        /\ call.result.status_code \in {400, 401, 404, 502}
        /\ ~call.wrote

\* the part of C26 that the code keeps: a failed lookup writes nothing to
\* the cache, a successful one after a miss writes its result
C26_FailureWritesNothing ==
    call.fn = "fetch_ndvi_stats" =>
        (call.wrote <=> (~call.result.raised /\ call.requests # <<>>))

\* the one request of the land-classification task of slot r succeeded
C27_ProviderAnswered(r) == bhuvan_task[r].log[1].ok

C28_Carries(out) == out.status = "200" /\ (out.pH = "num" \/ out.N = "num")
C28_LastCall(r) == sisindia_task[r].log[Len(sisindia_task[r].log)]
C28_Accepted(r) == sisindia_task[r].log # << >> /\ C28_LastCall(r).ok
C28_BothMissed(r) == Len(sisindia_task[r].log) = 2 /\ ~C28_LastCall(r).ok
C28_Offline(r) ==
    /\ ctx[r].soil = PopSource(lookup_soil(coord[r]))
    /\ ctx[r].soil.tier # "SISIndia"
    /\ ctx[r].data_sources[4] = "Soil Database (Offline)"
C28_Live(r) ==
    /\ ctx[r].soil.tier = "SISIndia"
    /\ ctx[r].data_sources[4] = "SISIndia API (Live)"

\* C28, the whole claim on the states of a request
C28_SoilResolver ==
    \A r \in Slots :
        /\ C28_Accepted(r) =>
              /\ sisindia_task[r].st = "done"
              /\ sisindia_task[r].res # NoData
              /\ pc[r] # "raised"
        /\ pc[r] = "done" /\ C28_Accepted(r) => C28_Live(r)
        /\ pc[r] = "done" /\ C28_BothMissed(r) => C28_Offline(r)

\* C28 without the clause that an accepted response is returned: what the
\* resolver returns when it returns
C28_SoilResolverWhenReturned ==
    \A r \in Slots :
        /\ pc[r] = "done" /\ C28_Accepted(r) => C28_Live(r)
        /\ pc[r] = "done" /\ C28_BothMissed(r) => C28_Offline(r)

\* C28, the first clause: a query's response is a miss exactly when it
\* carries neither pH nor N
C28_MissExactlyWithoutPhAndN ==
    [][\A r \in Slots, out \in SoilOutcomes :
          DistrictResponse(r, out) \/ GriddedResponse(r, out) =>
              (sisindia_task'[r].log[Len(sisindia_task'[r].log)].ok <=> C28_Carries(out))]_vars

C28_LiveReturned == \E r \in Slots : pc[r] = "done" /\ C28_Accepted(r) /\ C28_Live(r)
C28_OfflineReturned == \E r \in Slots : pc[r] = "done" /\ C28_BothMissed(r) /\ C28_Offline(r)

(***************************************************************************)
(* C30: for a query that names two or more locations, process_multi_query  *)
(* returns one QueryResponse per location found: the returned list is as   *)
(* long as the list of extracted locations.                                *)
(***************************************************************************)
C30_Answered ==
    /\ call.fn = "process_multi_query"
    /\ call.st = "returned"
    /\ Len(call.locations) >= 2

\* C30
C30_OneResponsePerLocation ==
    C30_Answered => Len(call.result) = Len(call.locations)

\* what the handler returns for such a query: the empty list
C30_NoResponseAtAll == C30_Answered => call.result = << >>

\* the handler has answered a query with two locations whose two contexts
\* were both built
C30_TwoContextsBuilt ==
    /\ C30_Answered
    /\ \A r \in RouteTasks : pc[r] = "done"

(***************************************************************************)
(* C31: the weather provenance entry identifies the tier that produced the *)
(* weather payload: the entry of a payload of the primary live provider,   *)
(* of the secondary live provider and of the estimator differ.             *)
(***************************************************************************)
\* the payloads the three tiers build for the request in slot r
C31_TierPayloads(r) ==
    {LiveWeather("OpenMeteo", "ok", coord[r]), LiveWeather("WeatherAPI", "ok", coord[r]),
     EstimateWeather(coord[r])}

\* the weather entry the request in slot r would carry for the payload w
C31_Entry(r, w) ==
    DataSources(w, ctx[r].land_classification, ctx[r].satellite,
                ctx[r].data_sources[4], ctx[r].market_brain)[1]

\* C31: the entry of a returned context is the entry of no other tier
C31_EntryIdentifiesTier ==
    \A r \in Slots :
        pc[r] = "done" =>
            \A w \in C31_TierPayloads(r) :
                w.tier # ctx[r].weather.tier => C31_Entry(r, w) # ctx[r].data_sources[1]

\* C31 for live against estimated only: the entry tells a live payload from
\* an estimate
C31_EntryTellsLiveFromEstimate ==
    \A r \in Slots :
        pc[r] = "done" =>
            \A w \in C31_TierPayloads(r) :
                (w.tier = "Estimate") # (ctx[r].weather.tier = "Estimate")
                    => C31_Entry(r, w) # ctx[r].data_sources[1]

\* a context whose weather came from the secondary live provider
C31_SecondaryReturned ==
    \E r \in Slots : pc[r] = "done" /\ ctx[r].weather.tier = "WeatherAPI"
                                    /\ ctx[r].data_sources[1] = "Open-Meteo (Live)"

(***************************************************************************)
(* C32: in the nearest-region selection, of two or more regions at the     *)
(* same minimum centre distance the one declared first is selected, both   *)
(* in _lookup_soil and in _get_region_name.                                *)
(***************************************************************************)
C32_Outside ==
    \A i \in 1..Len(soil_db.regions) : ~C13_Inside(soil_db.regions[i], call.at)

\* region i is the first declared region at the minimum centre distance
C32_FirstOfMinima(i) ==
    LET d(j) == C14_Dist(soil_db.regions[j], call.at) IN
    /\ \A j \in 1..Len(soil_db.regions) : d(i) <= d(j)
    /\ \A j \in 1..(i - 1) : d(i) < d(j)

\* the answers of Nominatim that name no region
C32_NoName == {"no_address", "non200", "timeout"} \cup GeoOutcomesMore

\* C32
C32_FirstDeclaredMinimumWins ==
    (C13_MatcherCalled /\ C32_Outside) =>
        \A i \in 1..Len(soil_db.regions) :
            (C32_FirstOfMinima(i) /\ C14_Dist(soil_db.regions[i], call.at) < NEAREST_LIMIT_M)
            => /\ call.fn = "_lookup_soil" =>
                    /\ call.result.region = soil_db.regions[i].city
                    /\ call.result.soil_type = soil_db.regions[i].soil_type
                    /\ call.result.note = "Nearest match"
               /\ (call.fn = "_get_region_name" /\ call.geo \in C32_NoName) =>
                    call.result = << <<"Near ", soil_db.regions[i].city>>,
                                     <<soil_db.regions[i].state>> >>

\* two regions declared with one centre, the point outside both boxes: the
\* profile is the one of the region declared first
C32_TieResolved ==
    /\ call.fn = "_lookup_soil"
    /\ C32_Outside
    /\ \E i \in 1..Len(soil_db.regions) :
          /\ C32_FirstOfMinima(i)
          /\ \E j \in (i + 1)..Len(soil_db.regions) :
                /\ C14_Dist(soil_db.regions[j], call.at) = C14_Dist(soil_db.regions[i], call.at)
                /\ soil_db.regions[j].city # soil_db.regions[i].city
          /\ call.result.region = soil_db.regions[i].city
          /\ call.result.note = "Nearest match"

(***************************************************************************)
(* C33: region naming tries its sources in a fixed order: the bounding-box *)
(* match, then one reverse-geocoding call, then the nearest region within  *)
(* 150 km, then the generic coordinate label. The reverse-geocoding call   *)
(* is made at most once, never when a box contains the coordinate, and any *)
(* failure or unusable answer of it leads to the nearest-match step.       *)
(***************************************************************************)
\* the label of the Nominatim answer geo for the point c
C33_GeoLabel(c, geo) ==
    CASE geo = "city_state" -> << <<GeoNames(c).city>>, <<GeoNames(c).state>> >>
      [] geo = "city_country" -> << <<GeoNames(c).city>>, <<GeoNames(c).country>> >>
      [] geo = "state_only" -> << <<GeoNames(c).state>> >>

\* the label of the nearest-match step and of the step after it
C33_NearestOrGeneric(c) ==
    LET near == {i \in 1..Len(soil_db.regions) :
                    /\ C32_FirstOfMinima(i)
                    /\ C14_Dist(soil_db.regions[i], c) < NEAREST_LIMIT_M}
    IN IF near # {}
       THEN LET i == CHOOSE i \in near : TRUE IN
            << <<"Near ", soil_db.regions[i].city>>, <<soil_db.regions[i].state>> >>
       ELSE << <<"Region (", ToString(Round2(c.lat)), "N">>,
               <<ToString(Round2(c.lon)), "E)">> >>

\* C33
C33_NamingOrder ==
    call.fn = "_get_region_name" =>
        /\ Len(call.calls) <= 1
        /\ ~C32_Outside =>
              /\ call.calls = << >>
              /\ \E i \in 1..Len(soil_db.regions) :
                    /\ C13_FirstContaining(i, call.at)
                    /\ call.result = << <<soil_db.regions[i].city>>,
                                        <<soil_db.regions[i].state>> >>
        /\ C32_Outside =>
              /\ call.calls = <<"nominatim">>
              /\ call.geo \in {"city_state", "city_country", "state_only"} =>
                    call.result = C33_GeoLabel(call.at, call.geo)
              /\ call.geo \in C32_NoName =>
                    call.result = C33_NearestOrGeneric(call.at)

\* the request timed out (or its answer was unusable) for a point outside
\* every box and within 150 km of a centre: the label is the nearest-match one
C33_FailureThenNearest ==
    /\ call.fn = "_get_region_name"
    /\ C32_Outside
    /\ call.geo \in {"timeout", "malformed"}
    /\ call.calls = <<"nominatim">>
    /\ call.result[1][1] = "Near "

(***************************************************************************)
(* C34: predict votes over exactly min(4 x top_k, dataset size) nearest    *)
(* reference rows, returns at most top_k entries with pairwise distinct    *)
(* labels, and orders them by accumulated vote weight, descending.         *)
(***************************************************************************)
C34_Predicted == call.fn = "predict" /\ engine.loaded

\* the rows that voted are n different rows, none farther from the query
\* than a row that did not vote
C34_NearestRows(n) ==
    LET dist == Distances(engine.rows, call.query)
        voted == {call.nearest[j] : j \in 1..Len(call.nearest)}
    IN /\ Len(call.nearest) = n
       /\ Cardinality(voted) = n
       /\ voted \subseteq 1..Len(engine.rows)
       /\ \A i \in voted, k \in (1..Len(engine.rows)) \ voted : dist[i] <= dist[k]

\* the accumulated weight of a label: the sum of the weights of the rows of
\* that label that voted
RECURSIVE C34_Votes(_, _)
C34_Votes(label, j) ==
    IF j = 0 THEN 0
    ELSE C34_Votes(label, j - 1)
         + (IF engine.rows[call.nearest[j]].label = label
            THEN Weight(Distances(engine.rows, call.query), call.nearest, call.nearest[j])
            ELSE 0)

\* C34
C34_VotesOverNearestRows ==
    C34_Predicted =>
        LET n == IF 4 * call.top_k <= Len(engine.rows) THEN 4 * call.top_k
                                                      ELSE Len(engine.rows)
            res == call.results
        IN /\ C34_NearestRows(n)
           /\ Len(res) <= call.top_k
           /\ \A i, j \in 1..Len(res) : i # j => res[i].crop # res[j].crop
           /\ \A i \in 1..Len(res) :
                 C34_Votes(res[i].crop, n) > 0
           /\ \A i \in 1..(Len(res) - 1) :
                 C34_Votes(res[i].crop, n) >= C34_Votes(res[i + 1].crop, n)
           \* no label left out has more weight than a returned one
           /\ \A k \in 1..Len(engine.rows) :
                 (\A i \in 1..Len(res) : res[i].crop # engine.rows[k].label)
                 => /\ Len(res) = call.top_k \/ C34_Votes(engine.rows[k].label, n) = 0
                    /\ \A i \in 1..Len(res) :
                          C34_Votes(res[i].crop, n) >= C34_Votes(engine.rows[k].label, n)

\* four of five rows voted for a prediction of one label, and the vote held
\* more than one label
C34_FourOfFiveVoted ==
    /\ C34_Predicted
    /\ call.top_k = 1
    /\ Len(engine.rows) = 5
    /\ Len(call.nearest) = 4
    /\ Len(call.results) = 1
    /\ Len(call.scores) > 1

(***************************************************************************)
(* C35: the classifier's normalisation basis is frozen after load: no      *)
(* predict call changes the stored means, deviations, feature matrix or    *)
(* labels; every stored deviation is non-zero (a zero deviation is         *)
(* replaced by 1 at load); two predict calls with the same arguments       *)
(* return the same result.                                                 *)
(***************************************************************************)
C35_SameAsFirst(c) ==
    /\ c.fn = "predict"
    /\ c.query = c.first.query
    /\ c.top_k = c.first.top_k

Request(r) == <<weather_task[r], bhuvan_task[r], agro_task[r], sisindia_task[r], pc[r]>>

\* One step of a request under way: a provider call of one of its tasks
\* returns or times out (every call carries an httpx timeout: lines 71, 196,
\* 243, 415, 505, 639, 749; sisindia_soil.py line 37; market_brain.py line
\* 25), or the aggregator resumes after its awaits (lines 103-112).
Progress(r) == pc[r] = "gather" /\ Next /\ Request(r)' # Request(r)

\* The event loop runs a task whose awaited call has completed, and no
\* provider call stays open for ever.
LiveSpec == Init /\ [][Next]_vars /\ \A r \in MainSlots : WF_vars(Progress(r))

C36_Open(t) == t.st \notin {"idle", "done", "raised"}

\* C36: every request that started returns a context
C36_EveryRequestReturns ==
    \A r \in MainSlots : (pc[r] = "gather") ~> (pc[r] = "done")

\* C36, as far as it holds: every request that started comes to an end, by
\* returning or by raising
C36_EveryRequestEnds ==
    \A r \in MainSlots : (pc[r] = "gather") ~> (pc[r] \in {"done", "raised"})

\* C36, as far as it holds: the weather resolver reaches its final state
\* with a result
C36_WeatherResolverFinishes ==
    \A r \in MainSlots : C36_Open(weather_task[r]) ~> (weather_task[r].st = "done")

\* C36, as far as it holds: the land resolver reaches its final state with
\* a result
C36_LandResolverFinishes ==
    \A r \in MainSlots : C36_Open(bhuvan_task[r]) ~> (bhuvan_task[r].st = "done")

\* C36, as far as it holds: the vegetation resolver reaches its final state
\* with a result
C36_NdviResolverFinishes ==
    \A r \in MainSlots : C36_Open(agro_task[r]) ~> (agro_task[r].st = "done")

\* C36, as far as it holds: the soil resolver reaches a final state, with a
\* result or with an exception
C36_SoilResolverEnds ==
    \A r \in MainSlots :
        C36_Open(sisindia_task[r]) ~> (sisindia_task[r].st \in {"done", "raised"})

\* C36, as far as it holds: the step that ends a call of one resolver leaves
\* the other resolvers of the request where they are, and a failed call of
\* the primary weather provider is followed by the next tier
C36_FailureMovesToNextTier ==
    [][\A r \in MainSlots :
          /\ (pc[r] = "gather" /\ weather_task'[r] # weather_task[r]) =>
                /\ bhuvan_task'[r] = bhuvan_task[r]
                /\ agro_task'[r] = agro_task[r]
                /\ sisindia_task'[r] = sisindia_task[r]
          /\ (/\ pc[r] = "gather"
              /\ weather_task[r].st = "pendA"
              /\ weather_task'[r] # weather_task[r]
              /\ weather_task'[r].log[Len(weather_task[r].log) + 1]
                    = Call("OpenMeteo", FALSE)) =>
                IF env.WEATHER_API_KEY
                THEN weather_task'[r].st = "pendB"
                ELSE /\ weather_task'[r].st = "done"
                     /\ weather_task'[r].res = EstimateWeather(coord[r])]_vars

\* the soil resolver ended without a result and the request raised
C36_RequestRaised ==
    \E r \in MainSlots : pc[r] = "raised" /\ sisindia_task[r].st = "raised"

(***************************************************************************)
(* C37: after any sequence of soil resolutions, sequential or interleaved, *)
(* the soil cache holds at most _MAX_CACHE_SIZE entries and only results   *)
(* of successful live queries (a miss or a failure of both live queries is *)
(* never cached), and a coordinate outside the India bounds neither        *)
(* queries the live provider nor reads or writes the cache.                *)
(***************************************************************************)
\* the dicts fetch_sisindia_soil builds from a live answer that carries data
C37_LiveResults ==
    {ConvertToSoilFormat(out) :
        out \in {o \in SoilBodies : ExtractSoilProperties(o) # "none" /\ ~ConvertRaises(o)}}

\* the resolution in slot r ended in this step
C37_Ended(r) == sisindia_task[r].st \notin {"done", "raised"} /\ sisindia_task'[r].st = "done"

\* the last provider call of the resolution in slot r, after this step
C37_LastCall(r) == sisindia_task'[r].log[Len(sisindia_task'[r].log)]

\* C37, on every step of the soil resolver
C37_SoilCacheDiscipline ==
    [][/\ Len(soil_cache') <= MAX_CACHE_SIZE
       /\ \A i \in 1..Len(soil_cache') : soil_cache'[i].value \in C37_LiveResults
       /\ soil_cache' # soil_cache =>
             \E r \in Slots :
                /\ InIndia(coord[r])
                /\ C37_Ended(r)
                /\ C37_LastCall(r).ok
                /\ SoilGetCached(soil_cache', CacheKey(coord[r])) \in C37_LiveResults
       /\ \A r \in Slots :
             /\ (C37_Ended(r) /\ sisindia_task'[r].res = NoData) =>
                   soil_cache' = soil_cache
             /\ (pc[r] = "idle" /\ pc'[r] = "gather" /\ ~InIndia(coord'[r])) =>
                   /\ sisindia_task'[r] = [st |-> "done", res |-> NoData, log |-> << >>]
                   /\ soil_cache' = soil_cache]_vars

\* with an entry in the cache, a resolution for a coordinate outside the
\* bounds whose cache key is present has ended without a provider call,
\* next to a resolution that missed in both live queries and whose key is
\* not in the cache
C37_OutsideNextToMiss ==
    /\ soil_cache # << >>
    /\ \E r, q \in Slots :
          /\ pc[r] = "gather"
          /\ ~InIndia(coord[r])
          /\ SoilGetCached(soil_cache, CacheKey(coord[r])) # NoData
          /\ sisindia_task[r] = [st |-> "done", res |-> NoData, log |-> << >>]
          /\ pc[q] = "gather"
          /\ sisindia_task[q].st = "done"
          /\ sisindia_task[q].log = <<Call("District", FALSE), Call("Gridded", FALSE)>>
          /\ SoilGetCached(soil_cache, CacheKey(coord[q])) = NoData

(***************************************************************************)
(* C38: in the market snapshot built from live records a commodity is      *)
(* marked as seen before its price is checked: a commodity whose first     *)
(* record in the provider response has a non-positive modal price is       *)
(* absent from the snapshot even when a later record of the same commodity *)
(* has a positive modal price.                                             *)
(***************************************************************************)
\* _fetch_mandi_data has returned a snapshot built from the records
C38_LiveSnapshot ==
    /\ call.fn = "_fetch_mandi_data"
    /\ ~call.result.raised
    /\ call.result.snapshot # << >>
    /\ \A j \in 1..Len(call.result.snapshot) : call.result.snapshot[j].kind = "live"

\* the first record of the commodity of record i
C38_FirstRecord(records, i) ==
    records[CHOOSE k \in 1..i :
               /\ records[k].commodity = records[i].commodity
               /\ \A m \in 1..(k - 1) : records[m].commodity # records[i].commodity]

C38_InSnapshot(commodity) ==
    \E j \in 1..Len(call.result.snapshot) : call.result.snapshot[j].commodity = commodity

\* C38, on every snapshot built from live records
C38_FirstRecordDecides ==
    C38_LiveSnapshot =>
        /\ \A i \in 1..Len(call.records) :
              C38_FirstRecord(call.records, i).modal_price <= 0 =>
                  ~C38_InSnapshot(call.records[i].commodity)
        /\ \A j \in 1..Len(call.result.snapshot) :
              \E i \in 1..Len(call.records) :
                 /\ call.records[i].commodity = call.result.snapshot[j].commodity
                 /\ C38_FirstRecord(call.records, i) = call.records[i]
                 /\ call.records[i].modal_price > 0
                 /\ call.result.snapshot[j].modal_price = call.records[i].modal_price \div 100

\* a live snapshot was built from records in which a commodity has a
\* non-positive price first and a positive price later
C38_PositiveAfterNonPositive ==
    /\ C38_LiveSnapshot
    /\ \E i, k \in 1..Len(call.records) :
          /\ i < k
          /\ call.records[i].commodity = call.records[k].commodity
          /\ C38_FirstRecord(call.records, k) = call.records[i]
          /\ call.records[i].modal_price <= 0
          /\ call.records[k].modal_price > 0
          /\ ~C38_InSnapshot(call.records[k].commodity)
====
